---- MODULE Spec2Model ----
(***************************************************************************)
(* Task-manager HTTP API: the Express request handlers of                   *)
(* backend/src/app.js over the data-access layer of backend/src/db.js      *)
(* (networked MySQL backend when MYSQL_URL is set, embedded SQLite backend  *)
(* otherwise), and the earlier SQLite-only server (unnamed/part_002) that   *)
(* serves the same API over the same database file.                         *)
(* The document-store servers (unnamed/part_001, unnamed/part_003) serve   *)
(* the same API over MongoDB and have a specification of their own.        *)
(*                                                                          *)
(* Every handler is an async function: the code between two awaits runs    *)
(* atomically on Node's single thread, and other requests interleave at    *)
(* the awaits.  Each action below is one such atomic segment: it starts    *)
(* with the completion of the awaited store call (or hash) and runs to the *)
(* next await or to the response.                                          *)
(***************************************************************************)
EXTENDS Integers, Sequences, FiniteSets, TLC

VARIABLES
    server,     \* which server runs in this process: "mysql" | "sqlite" |
                \* "legacy" | "mongo" | "mongoServerless"
    users,      \* rows of table users
    tasks,      \* rows of table tasks
    taskSeq,    \* next generated task id
    now,        \* the store's / process's clock
    pc,         \* per request: position of its handler
    request,    \* per request: the HTTP request while it is in flight
    local,      \* per request: the handler's local variables
    response,   \* per request: the response sent
    callText,   \* query(text, params): the statement of the call looked at
    callParams, \* query(text, params): its parameter list
    callResult, \* what that call resolved or rejected with
    seedFile,   \* what database/seed.sql holds
    starts,     \* how many times the process has been started
    dbReady,    \* the promise of bootstrapDatabase(): "pending" | "resolved" | "rejected"
    cached,     \* the module's connection handle (and the promise of it)
    creates,    \* how many times a connection handle has been created
    caller,     \* per caller of the handle getter: its position and its handle
    state,      \* the browser client's state object: user and tasks
    calls       \* per call of a client function: its position and its HTTP exchange

vars ==
    <<server, users, tasks, taskSeq, now, pc, request, local, response,
      callText, callParams, callResult, seedFile, starts, dbReady,
      cached, creates, caller, state, calls>>

\* the variables of the single query() call that is looked at on its own
callVars == <<callText, callParams, callResult>>

\* the variables of the process start and its bootstrap
bootVars == <<seedFile, starts, dbReady>>

\* the variables of the connection handle and its getters
connVars == <<cached, creates, caller>>

\* the variables of the browser client
clientVars == <<state, calls>>

----------------------------------------------------------------------------
(* Bounds of the model *)

MaxRequests == 2   \* requests received by the process (all may be in flight)
MaxUsers == 3      \* rows of users
MaxTasks == 4      \* task ids generated
MaxClock == 2      \* clock values 0..MaxClock
MaxHoles == 3      \* placeholder occurrences in a statement template
MaxParams == 2     \* parameters of a statement: $1..$MaxParams
MaxMatched == 2    \* rows a statement may return or affect
MaxStarts == 3     \* starts of the process
MaxCallers == 4    \* callers of the connection handle getter
MaxCalls == 3      \* calls of the browser client's functions

Requests == 1..MaxRequests

Callers == 1..MaxCallers

Calls == 1..MaxCalls

----------------------------------------------------------------------------
(* Strings are sequences of one-character strings. *)

\* String.prototype.trim, used on name, email and title
RECURSIVE TrimStart(_)
TrimStart(s) == IF s # <<>> /\ Head(s) = " " THEN TrimStart(Tail(s)) ELSE s

RECURSIVE TrimEnd(_)
TrimEnd(s) ==
    IF s # <<>> /\ s[Len(s)] = " " THEN TrimEnd(SubSeq(s, 1, Len(s) - 1)) ELSE s

TrimNothing(s) == s

trim(s) == TrimEnd(TrimStart(s))

LowerCharUnchanged(c) == c

\* String.prototype.toLowerCase over the model's alphabet
LowerChar(c) == CASE c = "A" -> "a" [] c = "B" -> "b" [] OTHER -> c

toLowerCase(s) == [i \in 1..Len(s) |-> LowerChar(s[i])]

\* Number.parseInt(text, 10): the value of the leading decimal digits, NaN
\* when the text does not start with a digit
NaN == -1

Digits == <<"0", "1", "2", "3", "4", "5", "6", "7", "8", "9">>

IsDigit(c) == \E d \in 1..10 : Digits[d] = c

DigitValue(c) == (CHOOSE d \in 1..10 : Digits[d] = c) - 1

RECURSIVE ParseDigits(_, _)
ParseDigits(s, acc) ==
    IF s = <<>> \/ ~IsDigit(Head(s)) THEN acc
    ELSE ParseDigits(Tail(s), acc * 10 + DigitValue(Head(s)))

parseInt(s) ==
    IF s = <<>> \/ ~IsDigit(Head(s)) THEN NaN ELSE ParseDigits(s, 0)

----------------------------------------------------------------------------
(* JSON values of a request body *)

JUndefined == [t |-> "undefined", s |-> <<>>, b |-> FALSE]
JString(s) == [t |-> "string", s |-> s, b |-> FALSE]
JNumber(s) == [t |-> "number", s |-> s, b |-> FALSE]
JBoolean(b) == [t |-> "boolean", s |-> <<>>, b |-> b]

\* JavaScript truthiness, as used by `x || ''` and `!x`
Truthy(v) ==
    CASE v.t = "string" -> v.s # <<>>
      [] v.t = "number" -> parseInt(v.s) # 0
      [] v.t = "boolean" -> v.b
      [] OTHER -> FALSE

\* `value || ''`
OrEmpty(v) == IF Truthy(v) THEN v ELSE JString(<<>>)

\* whether `(value || '').trim()` is callable: only a string has trim
HasTrim(v) == OrEmpty(v).t = "string"

----------------------------------------------------------------------------
(* Credential hasher (bcryptjs): a digest carries its salt; verification   *)
(* recomputes with the digest's salt.                                      *)

SALT_ROUNDS == 10

Salts == {1, 2}

\* bcrypt.hash(plain, SALT_ROUNDS) with the salt drawn for this call
hashPassword(plain, salt) == [salt |-> salt, rounds |-> SALT_ROUNDS, plain |-> plain]

\* bcrypt.compare(plain, hashed)
comparePassword(plain, hashed) == hashed.plain = plain

NoDigest == [salt |-> 0, rounds |-> 0, plain |-> <<>>]

----------------------------------------------------------------------------
(* The store: tables users and tasks *)

UserRow(id, name, email, hash) ==
    [id |-> id, name |-> name, email |-> email, password_hash |-> hash]

TaskRow(id, userId, title, completed, createdAt, updatedAt) ==
    [id |-> id, user_id |-> userId, title |-> title, completed |-> completed,
     created_at |-> createdAt, updated_at |-> updatedAt]

\* the columns a SELECT names
Project(row, cols) == [c \in cols |-> row[c]]

UserPublicCols == {"id", "name", "email"}
UserLoginCols == {"id", "name", "email", "password_hash"}

\* rows of a set in ascending id order (the tables' primary-key order)
RECURSIVE ById(_)
ById(S) ==
    IF S = {} THEN <<>>
    ELSE LET m == CHOOSE x \in S : \A y \in S : x.id <= y.id
         IN <<m>> \o ById(S \ {m})

ProjectAll(rows, cols) == [i \in 1..Len(rows) |-> Project(rows[i], cols)]

\* SELECT ... FROM users WHERE id = ?
SelectUserById(U, id, cols) ==
    ProjectAll(ById({u \in U : u.id = id}), cols)

SelectUserByEmailNone(U, email, cols) == <<>>

\* SELECT ... FROM users WHERE email = ?
SelectUserByEmail(U, email, cols) ==
    ProjectAll(ById({u \in U : u.email = email}), cols)

EmailNeverTaken(U, email) == FALSE

\* users.email is UNIQUE (CREATE TABLE users of the networked backend)
EmailTaken(U, email) == \E u \in U : u.email = email

\* the schema script of the embedded store declares users.email unique too
SchemaEmailTaken(U, email) == \E u \in U : u.email = email

\* users.id AUTO_INCREMENT; no endpoint deletes a user row
NextUserId(U) == Cardinality(U) + 1

\* a text bound to an INTEGER id column matches the row whose id it spells
IdMatches(id, text) ==
    /\ text # <<>>
    /\ \A i \in 1..Len(text) : IsDigit(text[i])
    /\ ParseDigits(text, 0) = id

SelectTaskAnyOwner(T, taskId, uid) ==
    ById({t \in T : IdMatches(t.id, taskId)})

\* SELECT ... FROM tasks WHERE id = ? AND user_id = ?
SelectTaskOwned(T, taskId, uid) ==
    ById({t \in T : IdMatches(t.id, taskId) /\ t.user_id = uid})

DeleteTaskAnyOwner(T, taskId, uid) ==
    {t \in T : IdMatches(t.id, taskId)}

\* DELETE FROM tasks WHERE id = ? AND user_id = ?  (the rows it removes)
DeleteTaskOwned(T, taskId, uid) ==
    {t \in T : IdMatches(t.id, taskId) /\ t.user_id = uid}

\* the store's clock read: NOW() / new Date(); time may have advanced
ClockReads == {t \in {now, now + 1} : t <= MaxClock}

----------------------------------------------------------------------------
(* Data-access layer: the shape query() gives a statement's outcome *)

\* db.js query(): { rows, rowCount }.  The networked driver's execute()
\* yields a row array for a SELECT and a result header (no array, no length)
\* for a write; the embedded backend yields db.all's rows for a SELECT and
\* { rows: [], rowCount: this.changes } for a write.
query(useMySql, isSelect, rows, changes) ==
    IF isSelect
    THEN [rows |-> rows, rowsIsList |-> TRUE,
          rowCount |-> Len(rows), rowCountIsNumber |-> TRUE]
    ELSE IF useMySql
    THEN [rows |-> <<>>, rowsIsList |-> FALSE,
          rowCount |-> 0, rowCountIsNumber |-> FALSE]
    ELSE [rows |-> <<>>, rowsIsList |-> TRUE,
          rowCount |-> changes, rowCountIsNumber |-> TRUE]

\* `!result.rowCount`
NoRowCount(result) == ~result.rowCountIsNumber \/ result.rowCount = 0

useMySql == server = "mysql"

\* A statement template is looked at through its kind (its first word) and
\* its placeholders: holes[k] = i says that the k-th placeholder of the text,
\* from the left, is $i.
NoText == [kind |-> "none", holes |-> <<>>]

\* text.replace(/\$\d+/g, '?'): every placeholder becomes a `?`, whatever its
\* number
Translate(holes) == [k \in 1..Len(holes) |-> "?"]

\* the drivers bind the parameter list to the `?` marks by position; SQLite
\* leaves a mark without a parameter NULL
Bind(marks, ps) ==
    [k \in 1..Len(marks) |-> IF k <= Len(ps) THEN ps[k] ELSE "NULL"]

\* the error of a parameter list that does not fit the marks: the networked
\* driver wants as many parameters as marks, the embedded one no more
\* parameters than marks
BindError(mysql, marks, ps) ==
    IF mysql /\ Len(ps) # Len(marks) THEN "ER_WRONG_ARGUMENTS"
    ELSE IF ~mysql /\ Len(ps) > Len(marks) THEN "SQLITE_RANGE"
    ELSE ""

\* db.js `let mysqlPool; let sqliteDb;` and part_001's
\* `cached = { conn: null, promise: null }`: conn is 0 while there is no
\* handle; promise is "none" | "pending" | "resolved" | "rejected"
NoCache == [conn |-> 0, promise |-> "none"]

\* the handle is there: the state every query after the first finds
Connected == [conn |-> 1, promise |-> "none"]

\* a caller of the getter: at "idle" | "awaiting" | "returned" | "thrown"
NoCaller == [at |-> "idle", handle |-> 0]

\* the browser client with nobody logged in: state.user null, state.tasks []
LoggedOut == [user |-> <<>>, tasks |-> <<>>]

\* a call of a client function that has not been made
NoCall ==
    [fn |-> "none", at |-> "idle", userId |-> 0, taskId |-> 0,
     answered |-> FALSE, status |-> 0, data |-> <<>>]

NoResult ==
    [done |-> FALSE, error |-> "", bound |-> <<>>, matched |-> 0,
     shape |-> [rows |-> <<>>, rowsIsList |-> FALSE,
                rowCount |-> 0, rowCountIsNumber |-> FALSE]]

----------------------------------------------------------------------------
(* Responses *)

NoResponse ==
    [status |-> 0, kind |-> "none", message |-> "", user |-> <<>>, tasks |-> <<>>]

\* res.status(status).json({ message })
JsonMessage(status, message) ==
    [status |-> status, kind |-> "message", message |-> message,
     user |-> <<>>, tasks |-> <<>>]

\* res.status(status).json({ user })
JsonUser(status, user) ==
    [status |-> status, kind |-> "user", message |-> "",
     user |-> <<user>>, tasks |-> <<>>]

\* res.status(status).json(task)
JsonTask(status, task) ==
    [status |-> status, kind |-> "task", message |-> "",
     user |-> <<>>, tasks |-> <<task>>]

\* res.json([task, ...])
JsonTasks(status, list) ==
    [status |-> status, kind |-> "tasks", message |-> "",
     user |-> <<>>, tasks |-> list]

\* res.status(status).send()
SendEmpty(status) ==
    [status |-> status, kind |-> "empty", message |-> "",
     user |-> <<>>, tasks |-> <<>>]

\* an Error: status is 0 when the error carries none
Error(status, message) == [status |-> status, message |-> message]

\* handleError: error.status || 500, error.message || fallbackMessage
handleError(error, fallbackMessage) ==
    JsonMessage(IF error.status # 0 THEN error.status ELSE 500,
                IF error.message # "" THEN error.message ELSE fallbackMessage)

sanitizeUserWhole(row) == row

sanitizeUser(row) == [id |-> row.id, name |-> row.name, email |-> row.email]

mapTask(row) ==
    [id |-> row.id, userId |-> row.user_id, title |-> row.title,
     completed |-> (row.completed # 0),
     createdAt |-> row.created_at, updatedAt |-> row.updated_at]

\* errors the code meets
TrimTypeError == Error(0, "(req.body.name || '').trim is not a function")
UndefinedRowError == Error(0, "Cannot read properties of undefined")
NoSuchFunctionNow == Error(0, "SQLITE_ERROR: no such function: NOW")
MySqlParseError == Error(0, "You have an error in your SQL syntax near 'RETURNING'")
MySqlDuplicateEntry == Error(0, "Duplicate entry for key 'email'")
SqliteConstraint == Error(0, "SQLITE_CONSTRAINT: UNIQUE constraint failed: users.email")

----------------------------------------------------------------------------
(* Requests *)

NoBody ==
    [name |-> JUndefined, email |-> JUndefined, password |-> JUndefined,
     title |-> JUndefined, completed |-> JUndefined]

NoRequest == [op |-> "none", userId |-> <<>>, taskId |-> <<>>, body |-> NoBody]

NoLocal ==
    [name |-> <<>>, email |-> <<>>, password |-> <<>>, passwordHash |-> NoDigest,
     uid |-> 0, title |-> <<>>, completed |-> 0, lastID |-> 0, rows |-> <<>>]

ShortPassword == <<"p">>
GoodPassword == <<"p", "p", "p", "p", "p", "p">>
OtherPassword == <<"q", "q", "q", "q", "q", "q">>

NameInputs == {JUndefined, JString(<<"n", " ">>), JNumber(<<"5">>)}
EmailInputs ==
    {JUndefined, JString(<<"a">>), JString(<<" ", "A">>), JString(<<"b">>)}
RegisterPasswords == {JUndefined, JString(ShortPassword), JString(GoodPassword)}
LoginPasswords == {JUndefined, JString(GoodPassword), JString(OtherPassword)}

RegisterRequests ==
    {[op |-> "register", userId |-> <<>>, taskId |-> <<>>,
      body |-> [NoBody EXCEPT !.name = n, !.email = e, !.password = p]] :
        n \in NameInputs, e \in EmailInputs, p \in RegisterPasswords}

LoginRequests ==
    {[op |-> "login", userId |-> <<>>, taskId |-> <<>>,
      body |-> [NoBody EXCEPT !.email = e, !.password = p]] :
        e \in EmailInputs, p \in LoginPasswords}

PathUserIds == {<<"1">>, <<"2">>, <<"9">>, <<"x">>, <<"1", "x">>}
\* task ids in a path: decimal numerals, or a text that spells no number
PathTaskIds == {<<"1">>, <<"2">>, <<"x">>}

TitleInputs ==
    {JUndefined, JString(<<" ">>), JString(<<" ", "t">>), JString(<<"v">>)}

UpdateBodies ==
    {NoBody,
     [NoBody EXCEPT !.completed = JBoolean(TRUE)],
     [NoBody EXCEPT !.title = JString(<<" ">>)],
     [NoBody EXCEPT !.title = JString(<<"u", " ">>), !.completed = JString(<<"y">>)]}

ListRequests ==
    {[op |-> "list", userId |-> u, taskId |-> <<>>, body |-> NoBody] :
        u \in PathUserIds}

\* a create body may carry a completed field, which the handler does not read
CreateCompleted == {JUndefined, JBoolean(TRUE)}

CreateRequests ==
    {[op |-> "create", userId |-> u, taskId |-> <<>>,
      body |-> [NoBody EXCEPT !.title = t, !.completed = c]] :
        u \in PathUserIds, t \in TitleInputs, c \in CreateCompleted}

UpdateRequests ==
    {[op |-> "update", userId |-> u, taskId |-> t, body |-> b] :
        u \in PathUserIds, t \in PathTaskIds, b \in UpdateBodies}

DeleteRequests ==
    {[op |-> "delete", userId |-> u, taskId |-> t, body |-> NoBody] :
        u \in PathUserIds, t \in PathTaskIds}

RequestInputs ==
    RegisterRequests \cup LoginRequests \cup ListRequests \cup CreateRequests
        \cup UpdateRequests \cup DeleteRequests

\* the request is answered: its handler is over
Respond(r, resp) ==
    /\ pc' = [pc EXCEPT ![r] = "done"]
    /\ response' = [response EXCEPT ![r] = resp]
    /\ UNCHANGED request
    /\ local' = [local EXCEPT ![r] = NoLocal]
    /\ UNCHANGED <<callVars, clientVars, bootVars, connVars>>

\* the handler awaits its next store call (or hash)
Await(r, next, loc) ==
    /\ pc' = [pc EXCEPT ![r] = next]
    /\ local' = [local EXCEPT ![r] = loc]
    /\ UNCHANGED <<request, response>>
    /\ UNCHANGED <<callVars, clientVars, bootVars, connVars>>

\* a request reaches the process; requests are numbered in arrival order.
\* A received request's handler starts before the next request is taken up.
Receive(r) ==
    /\ pc[r] = "idle"
    /\ \A q \in Requests : q < r => pc[q] # "idle"
    /\ \A q \in Requests : pc[q] # "received"
    /\ \E req \in RequestInputs : request' = [request EXCEPT ![r] = req]
    /\ pc' = [pc EXCEPT ![r] = "received"]
    /\ UNCHANGED <<server, users, tasks, taskSeq, now, local, response>>
    /\ UNCHANGED <<callVars, clientVars, bootVars, connVars>>

----------------------------------------------------------------------------
(* POST /api/auth/register (app.js) *)

MinPasswordLength == 6

\* `password.length < 6`: a length exists for a string only
PasswordTooShort(password) ==
    password.t = "string" /\ Len(password.s) < MinPasswordLength

\* lines 84-94: parse, trim, validate; then issue the email pre-check
RegisterValidation(r, fallback) ==
    LET b == request[r].body IN
    IF ~HasTrim(b.name) \/ ~HasTrim(b.email)
    THEN Respond(r, handleError(TrimTypeError, fallback))
    ELSE LET name == trim(OrEmpty(b.name).s)
             email == toLowerCase(trim(OrEmpty(b.email).s))
             password == OrEmpty(b.password)
         IN IF name = <<>> \/ email = <<>> \/ ~Truthy(password)
            THEN Respond(r, JsonMessage(400, "Name, email, and password are required"))
            ELSE IF PasswordTooShort(password)
            THEN Respond(r, JsonMessage(400, "Password must be at least 6 characters"))
            ELSE Await(r, "precheck",
                       [local[r] EXCEPT !.name = name, !.email = email,
                                        !.password = password.s])

RegisterStart(r) ==
    /\ server \in {"mysql", "sqlite"}
    /\ pc[r] = "received" /\ request[r].op = "register"
    /\ RegisterValidation(r, "Failed to register")
    /\ UNCHANGED <<server, users, tasks, taskSeq, now>>

\* lines 96-99: the pre-check's answer; then hash
RegisterPrecheck(r) ==
    /\ server \in {"mysql", "sqlite"}
    /\ pc[r] = "precheck" /\ request[r].op = "register"
    /\ LET existing == query(useMySql, TRUE,
                             SelectUserByEmail(users, local[r].email, {"id"}), 0)
       IN IF Len(existing.rows) # 0
          THEN Respond(r, JsonMessage(409, "Email already registered"))
          ELSE Await(r, "hash", local[r])
    /\ UNCHANGED <<server, users, tasks, taskSeq, now>>

\* line 101: the hash is ready; then issue INSERT ... RETURNING
RegisterHash(r) ==
    /\ server \in {"mysql", "sqlite"}
    /\ pc[r] = "hash" /\ request[r].op = "register"
    /\ \E salt \in Salts :
         Await(r, "insert",
               [local[r] EXCEPT !.passwordHash = hashPassword(local[r].password, salt)])
    /\ UNCHANGED <<server, users, tasks, taskSeq, now>>

\* lines 102-116: INSERT ... VALUES (..., NOW(), NOW()) RETURNING fails on
\* both backends: the networked one rejects RETURNING (ER_PARSE_ERROR, caught:
\* insert again without it), the embedded one has no function NOW (rethrown)
RegisterInsert(r) ==
    /\ server \in {"mysql", "sqlite"}
    /\ pc[r] = "insert" /\ request[r].op = "register"
    /\ IF useMySql
       THEN Await(r, "insert2", local[r])
       ELSE Respond(r, handleError(NoSuchFunctionNow, "Failed to register"))
    /\ UNCHANGED <<server, users, tasks, taskSeq, now>>

\* lines 108-111: the plain INSERT on the networked backend; the UNIQUE key on
\* email rejects a duplicate, and the error reaches handleError
RegisterFallbackInsert(r) ==
    /\ server = "mysql"
    /\ pc[r] = "insert2" /\ request[r].op = "register"
    /\ IF EmailTaken(users, local[r].email)
       THEN /\ Respond(r, handleError(MySqlDuplicateEntry, "Failed to register"))
            /\ UNCHANGED users
       ELSE /\ Cardinality(users) < MaxUsers
            /\ users' = users \cup
                 {UserRow(NextUserId(users), local[r].name, local[r].email,
                          local[r].passwordHash)}
            /\ Await(r, "readback", local[r])
    /\ UNCHANGED <<server, tasks, taskSeq, now>>

\* lines 112-118: read the row back by email and answer 201
RegisterReadBack(r) ==
    /\ server = "mysql"
    /\ pc[r] = "readback" /\ request[r].op = "register"
    /\ LET fetched == query(useMySql, TRUE,
                            SelectUserByEmail(users, local[r].email, UserPublicCols), 0)
       IN IF Len(fetched.rows) = 0
          THEN Respond(r, handleError(UndefinedRowError, "Failed to register"))
          ELSE Respond(r, JsonUser(201, sanitizeUser(fetched.rows[1])))
    /\ UNCHANGED <<server, users, tasks, taskSeq, now>>

----------------------------------------------------------------------------
(* POST /api/auth/login (app.js) *)

\* lines 126-131: parse and validate; then issue the lookup by email
LoginValidation(r, fallback) ==
    LET b == request[r].body IN
    IF ~HasTrim(b.email)
    THEN Respond(r, handleError(TrimTypeError, fallback))
    ELSE LET email == toLowerCase(trim(OrEmpty(b.email).s))
             password == OrEmpty(b.password)
         IN IF email = <<>> \/ ~Truthy(password)
            THEN Respond(r, JsonMessage(400, "Email and password are required"))
            ELSE Await(r, "lookup",
                       [local[r] EXCEPT !.email = email, !.password = password.s])

LoginFoundRevealing(r, rows) ==
    IF Len(rows) = 0
    THEN Respond(r, JsonMessage(404, "User not found"))
    ELSE Await(r, "compare", [local[r] EXCEPT !.rows = <<rows[1]>>])

\* lines 133-137 after the lookup: no row, 401; else compare
LoginFound(r, rows) ==
    IF Len(rows) = 0
    THEN Respond(r, JsonMessage(401, "Invalid credentials"))
    ELSE Await(r, "compare", [local[r] EXCEPT !.rows = <<rows[1]>>])

\* lines 139-144 after the comparison
LoginMatched(r) ==
    LET user == local[r].rows[1] IN
    IF ~comparePassword(local[r].password, user.password_hash)
    THEN Respond(r, JsonMessage(401, "Invalid credentials"))
    ELSE Respond(r, JsonUser(200, sanitizeUser(user)))

LoginStart(r) ==
    /\ server \in {"mysql", "sqlite"}
    /\ pc[r] = "received" /\ request[r].op = "login"
    /\ LoginValidation(r, "Failed to login")
    /\ UNCHANGED <<server, users, tasks, taskSeq, now>>

LoginLookup(r) ==
    /\ server \in {"mysql", "sqlite"}
    /\ pc[r] = "lookup" /\ request[r].op = "login"
    /\ LoginFound(r, query(useMySql, TRUE,
                           SelectUserByEmail(users, local[r].email, UserLoginCols),
                           0).rows)
    /\ UNCHANGED <<server, users, tasks, taskSeq, now>>

LoginCompare(r) ==
    /\ server \in {"mysql", "sqlite"}
    /\ pc[r] = "compare" /\ request[r].op = "login"
    /\ LoginMatched(r)
    /\ UNCHANGED <<server, users, tasks, taskSeq, now>>

----------------------------------------------------------------------------
(* ensureUser (app.js): the tasks endpoints' first step *)

TaskOps == {"list", "create", "update", "delete"}

\* lines 52-58: parse the path user id; NaN is a 400, else look the user up
TasksStart(r) ==
    /\ server \in {"mysql", "sqlite"}
    /\ pc[r] = "received" /\ request[r].op \in TaskOps
    /\ LET id == parseInt(request[r].userId) IN
       IF id = NaN
       THEN Respond(r, handleError(Error(400, "Invalid user id"), "Request failed"))
       ELSE Await(r, "ensureUser", [local[r] EXCEPT !.uid = id])
    /\ UNCHANGED <<server, users, tasks, taskSeq, now>>

ensureUserAlwaysFound(r) == <<[id |-> local[r].uid]>>

\* lines 58-65: the user row of the lookup, <<>> when there is none
ensureUser(r) ==
    query(useMySql, TRUE, SelectUserById(users, local[r].uid, UserPublicCols), 0).rows

UserNotFoundNoStatus == handleError(Error(0, "User not found"), "Request failed")

\* lines 60-64: the error ensureUser throws when the lookup finds no row
UserNotFound == handleError(Error(404, "User not found"), "Request failed")

----------------------------------------------------------------------------
(* GET /api/users/:userId/tasks (app.js) *)

ByAnyOrder(S) ==
    {q \in [1..Cardinality(S) -> S] :
        \A i, j \in 1..Cardinality(S) : i # j => q[i] # q[j]}

\* the orders a SELECT ... ORDER BY created_at DESC may return the rows in
ByCreatedAtDesc(S) ==
    {q \in [1..Cardinality(S) -> S] :
        /\ \A i, j \in 1..Cardinality(S) : i # j => q[i] # q[j]
        /\ \A i, j \in 1..Cardinality(S) :
             i < j => q[i].created_at >= q[j].created_at}

MapTasks(rows) == [i \in 1..Len(rows) |-> mapTask(rows[i])]

ListUser(r) ==
    /\ server \in {"mysql", "sqlite"}
    /\ pc[r] = "ensureUser" /\ request[r].op = "list"
    /\ IF ensureUser(r) = <<>>
       THEN Respond(r, UserNotFound)
       ELSE Await(r, "query", local[r])
    /\ UNCHANGED <<server, users, tasks, taskSeq, now>>

ListQuery(r) ==
    /\ server \in {"mysql", "sqlite"}
    /\ pc[r] = "query" /\ request[r].op = "list"
    /\ \E rows \in ByCreatedAtDesc({t \in tasks : t.user_id = local[r].uid}) :
         Respond(r, JsonTasks(200, MapTasks(query(useMySql, TRUE, rows, 0).rows)))
    /\ UNCHANGED <<server, users, tasks, taskSeq, now>>

----------------------------------------------------------------------------
(* POST /api/users/:userId/tasks (app.js) *)

\* lines 168-171: the title check after ensureUser; then issue the INSERT
CreateValidation(r, fallback) ==
    LET b == request[r].body IN
    IF ~HasTrim(b.title)
    THEN Respond(r, handleError(TrimTypeError, fallback))
    ELSE LET title == trim(OrEmpty(b.title).s)
         IN IF title = <<>>
            THEN Respond(r, JsonMessage(400, "Task title is required"))
            ELSE Await(r, "insert", [local[r] EXCEPT !.title = title])

CreateUser(r) ==
    /\ server \in {"mysql", "sqlite"}
    /\ pc[r] = "ensureUser" /\ request[r].op = "create"
    /\ IF ensureUser(r) = <<>>
       THEN Respond(r, UserNotFound)
       ELSE CreateValidation(r, "Failed to create task")
    /\ UNCHANGED <<server, users, tasks, taskSeq, now>>

\* lines 173-189: INSERT ... NOW() ... RETURNING fails on both backends; only
\* the networked backend's ER_PARSE_ERROR is caught
CreateInsert(r) ==
    /\ server \in {"mysql", "sqlite"}
    /\ pc[r] = "insert" /\ request[r].op = "create"
    /\ IF useMySql
       THEN Await(r, "insert2", local[r])
       ELSE Respond(r, handleError(NoSuchFunctionNow, "Failed to create task"))
    /\ UNCHANGED <<server, users, tasks, taskSeq, now>>

\* lines 178-181: the plain INSERT on the networked backend
CreateFallbackInsert(r) ==
    /\ server = "mysql"
    /\ pc[r] = "insert2" /\ request[r].op = "create"
    /\ taskSeq <= MaxTasks
    /\ \E t \in ClockReads :
         /\ tasks' = tasks \cup
              {TaskRow(taskSeq, local[r].uid, local[r].title, 0, t, t)}
         /\ now' = t
    /\ taskSeq' = taskSeq + 1
    /\ Await(r, "readback", local[r])
    /\ UNCHANGED <<server, users>>

\* SELECT ... FROM tasks WHERE user_id = ? ORDER BY id DESC LIMIT 1
SelectLatestTask(T, uid) ==
    LET mine == {t \in T : t.user_id = uid} IN
    IF mine = {} THEN <<>>
    ELSE <<CHOOSE t \in mine : \A o \in mine : o.id <= t.id>>

\* lines 182-190: read back the user's newest task and answer 201
CreateReadBack(r) ==
    /\ server = "mysql"
    /\ pc[r] = "readback" /\ request[r].op = "create"
    /\ LET fetched == query(useMySql, TRUE, SelectLatestTask(tasks, local[r].uid), 0)
       IN IF Len(fetched.rows) = 0
          THEN Respond(r, handleError(UndefinedRowError, "Failed to create task"))
          ELSE Respond(r, JsonTask(201, mapTask(fetched.rows[1])))
    /\ UNCHANGED <<server, users, tasks, taskSeq, now>>

----------------------------------------------------------------------------
(* PUT /api/users/:userId/tasks/:taskId (app.js) *)

\* String(value)
JsString(v) ==
    CASE v.t = "boolean" -> IF v.b THEN <<"t", "r", "u", "e">>
                            ELSE <<"f", "a", "l", "s", "e">>
      [] OTHER -> v.s

UpdateUser(r) ==
    /\ server \in {"mysql", "sqlite"}
    /\ pc[r] = "ensureUser" /\ request[r].op = "update"
    /\ IF ensureUser(r) = <<>>
       THEN Respond(r, UserNotFound)
       ELSE Await(r, "find", local[r])
    /\ UNCHANGED <<server, users, tasks, taskSeq, now>>

\* lines 205-217 after the SELECT of the task: 404 when the path user owns no
\* such task, 400 for an empty title, else the new title and completed
UpdateValidation(r, rows) ==
    LET b == request[r].body IN
    IF Len(rows) = 0
    THEN Respond(r, JsonMessage(404, "Task not found"))
    ELSE LET current == rows[1]
             hasTitle == b.title.t # "undefined"
             title == IF hasTitle THEN trim(JsString(b.title)) ELSE current.title
             completed == IF b.completed.t = "boolean"
                          THEN (IF b.completed.b THEN 1 ELSE 0)
                          ELSE current.completed
         IN IF hasTitle /\ title = <<>>
            THEN Respond(r, JsonMessage(400, "Task title cannot be empty"))
            ELSE Await(r, "update",
                       [local[r] EXCEPT !.title = title, !.completed = completed])

UpdateFind(r) ==
    /\ server \in {"mysql", "sqlite"}
    /\ pc[r] = "find" /\ request[r].op = "update"
    /\ UpdateValidation(r, query(useMySql, TRUE,
                                 SelectTaskOwned(tasks, request[r].taskId, local[r].uid),
                                 0).rows)
    /\ UNCHANGED <<server, users, tasks, taskSeq, now>>

\* lines 219-224: UPDATE ... updated_at = NOW() ... RETURNING fails on both
\* backends (RETURNING on the networked one, NOW on the embedded one) and
\* nothing catches it before handleError
UpdateRun(r) ==
    /\ server \in {"mysql", "sqlite"}
    /\ pc[r] = "update" /\ request[r].op = "update"
    /\ Respond(r, handleError(IF useMySql THEN MySqlParseError ELSE NoSuchFunctionNow,
                              "Failed to update task"))
    /\ UNCHANGED <<server, users, tasks, taskSeq, now>>

----------------------------------------------------------------------------
(* DELETE /api/users/:userId/tasks/:taskId (app.js) *)

DeleteUser(r) ==
    /\ server \in {"mysql", "sqlite"}
    /\ pc[r] = "ensureUser" /\ request[r].op = "delete"
    /\ IF ensureUser(r) = <<>>
       THEN Respond(r, UserNotFound)
       ELSE Await(r, "delete", local[r])
    /\ UNCHANGED <<server, users, tasks, taskSeq, now>>

\* lines 235-238: 404 when the result has no row count, else 204
DeleteAnswer(result) ==
    IF NoRowCount(result)
    THEN JsonMessage(404, "Task not found")
    ELSE SendEmpty(204)

\* line 234: the DELETE runs, then the answer is read off its result
DeleteRun(r) ==
    /\ server \in {"mysql", "sqlite"}
    /\ pc[r] = "delete" /\ request[r].op = "delete"
    /\ LET removed == DeleteTaskOwned(tasks, request[r].taskId, local[r].uid)
       IN /\ tasks' = tasks \ removed
          /\ Respond(r, DeleteAnswer(query(useMySql, FALSE, <<>>, Cardinality(removed))))
    /\ UNCHANGED <<server, users, taskSeq, now>>

----------------------------------------------------------------------------
(* The earlier SQLite-only server (unnamed/part_002): the same endpoints   *)
(* over runAsync / getAsync / allAsync, with `?` placeholders, timestamps  *)
(* taken from the process clock and every written row read back by id.    *)
(* Its validation, login and answer code is the same text as app.js's.    *)

\* runAsync: { id: this.lastID, changes: this.changes }
runAsync(lastID, changes) == [id |-> lastID, changes |-> changes]

\* getAsync(SELECT ... FROM users WHERE id = ?, [userId]): the path text is
\* bound as it is
LegacyEnsureUser(r) ==
    ProjectAll(ById({u \in users : IdMatches(u.id, request[r].userId)}),
               UserPublicCols)

LegacyRegisterStart(r) ==
    /\ server = "legacy"
    /\ pc[r] = "received" /\ request[r].op = "register"
    /\ RegisterValidation(r, "Failed to register")
    /\ UNCHANGED <<server, users, tasks, taskSeq, now>>

LegacyRegisterPrecheck(r) ==
    /\ server = "legacy"
    /\ pc[r] = "precheck" /\ request[r].op = "register"
    /\ IF SelectUserByEmail(users, local[r].email, {"id"}) # <<>>
       THEN Respond(r, JsonMessage(409, "Email already registered"))
       ELSE Await(r, "hash", local[r])
    /\ UNCHANGED <<server, users, tasks, taskSeq, now>>

LegacyRegisterHash(r) ==
    /\ server = "legacy"
    /\ pc[r] = "hash" /\ request[r].op = "register"
    /\ \E salt \in Salts :
         Await(r, "insert",
               [local[r] EXCEPT !.passwordHash = hashPassword(local[r].password, salt)])
    /\ UNCHANGED <<server, users, tasks, taskSeq, now>>

\* INSERT INTO users ...: the email column is unique in the schema script
LegacyRegisterInsert(r) ==
    /\ server = "legacy"
    /\ pc[r] = "insert" /\ request[r].op = "register"
    /\ IF SchemaEmailTaken(users, local[r].email)
       THEN /\ Respond(r, handleError(SqliteConstraint, "Failed to register"))
            /\ UNCHANGED users
       ELSE /\ Cardinality(users) < MaxUsers
            /\ users' = users \cup
                 {UserRow(NextUserId(users), local[r].name, local[r].email,
                          local[r].passwordHash)}
            /\ Await(r, "readback",
                     [local[r] EXCEPT !.lastID = runAsync(NextUserId(users), 1).id])
    /\ UNCHANGED <<server, tasks, taskSeq, now>>

LegacyRegisterReadBack(r) ==
    /\ server = "legacy"
    /\ pc[r] = "readback" /\ request[r].op = "register"
    /\ LET created == SelectUserById(users, local[r].lastID, UserPublicCols)
       IN IF created = <<>>
          THEN Respond(r, handleError(UndefinedRowError, "Failed to register"))
          ELSE Respond(r, JsonUser(201, sanitizeUser(created[1])))
    /\ UNCHANGED <<server, users, tasks, taskSeq, now>>

LegacyLoginStart(r) ==
    /\ server = "legacy"
    /\ pc[r] = "received" /\ request[r].op = "login"
    /\ LoginValidation(r, "Failed to login")
    /\ UNCHANGED <<server, users, tasks, taskSeq, now>>

LegacyLoginLookup(r) ==
    /\ server = "legacy"
    /\ pc[r] = "lookup" /\ request[r].op = "login"
    /\ LoginFound(r, SelectUserByEmail(users, local[r].email, UserLoginCols))
    /\ UNCHANGED <<server, users, tasks, taskSeq, now>>

LegacyLoginCompare(r) ==
    /\ server = "legacy"
    /\ pc[r] = "compare" /\ request[r].op = "login"
    /\ LoginMatched(r)
    /\ UNCHANGED <<server, users, tasks, taskSeq, now>>

\* every tasks handler first awaits ensureUser(userId)
LegacyTasksStart(r) ==
    /\ server = "legacy"
    /\ pc[r] = "received" /\ request[r].op \in TaskOps
    /\ Await(r, "ensureUser", local[r])
    /\ UNCHANGED <<server, users, tasks, taskSeq, now>>

\* the user id a path text is stored and compared as, once ensureUser found it
LegacyUid(r) == ParseDigits(request[r].userId, 0)

LegacyListUser(r) ==
    /\ server = "legacy"
    /\ pc[r] = "ensureUser" /\ request[r].op = "list"
    /\ IF LegacyEnsureUser(r) = <<>>
       THEN Respond(r, UserNotFound)
       ELSE Await(r, "query", [local[r] EXCEPT !.uid = LegacyUid(r)])
    /\ UNCHANGED <<server, users, tasks, taskSeq, now>>

LegacyListQuery(r) ==
    /\ server = "legacy"
    /\ pc[r] = "query" /\ request[r].op = "list"
    /\ \E rows \in ByCreatedAtDesc({t \in tasks : t.user_id = local[r].uid}) :
         Respond(r, JsonTasks(200, MapTasks(rows)))
    /\ UNCHANGED <<server, users, tasks, taskSeq, now>>

LegacyCreateUser(r) ==
    /\ server = "legacy"
    /\ pc[r] = "ensureUser" /\ request[r].op = "create"
    /\ IF LegacyEnsureUser(r) = <<>>
       THEN Respond(r, UserNotFound)
       ELSE CreateValidation(r, "Failed to create task")
    /\ UNCHANGED <<server, users, tasks, taskSeq, now>>

\* INSERT INTO tasks ... VALUES (?, ?, 0, ?, ?) with now = new Date()
LegacyCreateInsert(r) ==
    /\ server = "legacy"
    /\ pc[r] = "insert" /\ request[r].op = "create"
    /\ taskSeq <= MaxTasks
    /\ \E t \in ClockReads :
         /\ tasks' = tasks \cup
              {TaskRow(taskSeq, LegacyUid(r), local[r].title, 0, t, t)}
         /\ now' = t
    /\ taskSeq' = taskSeq + 1
    /\ Await(r, "readback", [local[r] EXCEPT !.lastID = runAsync(taskSeq, 1).id])
    /\ UNCHANGED <<server, users>>

\* SELECT ... FROM tasks WHERE id = ?
SelectTaskById(T, id) == ById({t \in T : t.id = id})

LegacyCreateReadBack(r) ==
    /\ server = "legacy"
    /\ pc[r] = "readback" /\ request[r].op = "create"
    /\ LET created == SelectTaskById(tasks, local[r].lastID)
       IN IF created = <<>>
          THEN Respond(r, handleError(UndefinedRowError, "Failed to create task"))
          ELSE Respond(r, JsonTask(201, mapTask(created[1])))
    /\ UNCHANGED <<server, users, tasks, taskSeq, now>>

LegacyUpdateUser(r) ==
    /\ server = "legacy"
    /\ pc[r] = "ensureUser" /\ request[r].op = "update"
    /\ IF LegacyEnsureUser(r) = <<>>
       THEN Respond(r, UserNotFound)
       ELSE Await(r, "find", [local[r] EXCEPT !.uid = LegacyUid(r)])
    /\ UNCHANGED <<server, users, tasks, taskSeq, now>>

LegacyUpdateFind(r) ==
    /\ server = "legacy"
    /\ pc[r] = "find" /\ request[r].op = "update"
    /\ UpdateValidation(r, SelectTaskOwned(tasks, request[r].taskId, local[r].uid))
    /\ UNCHANGED <<server, users, tasks, taskSeq, now>>

\* UPDATE tasks SET title = ?, completed = ?, updated_at = ? WHERE id = ? AND
\* user_id = ?
UpdateTaskOwned(T, taskId, uid, title, completed, t) ==
    {IF IdMatches(row.id, taskId) /\ row.user_id = uid
     THEN [row EXCEPT !.title = title, !.completed = completed, !.updated_at = t]
     ELSE row : row \in T}

LegacyUpdateRun(r) ==
    /\ server = "legacy"
    /\ pc[r] = "update" /\ request[r].op = "update"
    /\ \E t \in ClockReads :
         /\ tasks' = UpdateTaskOwned(tasks, request[r].taskId, local[r].uid,
                                     local[r].title, local[r].completed, t)
         /\ now' = t
    /\ Await(r, "readback", local[r])
    /\ UNCHANGED <<server, users, taskSeq>>

\* SELECT ... FROM tasks WHERE id = ? with the path's task id
LegacyUpdateReadBack(r) ==
    /\ server = "legacy"
    /\ pc[r] = "readback" /\ request[r].op = "update"
    /\ LET updated == ById({t \in tasks : IdMatches(t.id, request[r].taskId)})
       IN IF updated = <<>>
          THEN Respond(r, handleError(UndefinedRowError, "Failed to update task"))
          ELSE Respond(r, JsonTask(200, mapTask(updated[1])))
    /\ UNCHANGED <<server, users, tasks, taskSeq, now>>

LegacyDeleteUser(r) ==
    /\ server = "legacy"
    /\ pc[r] = "ensureUser" /\ request[r].op = "delete"
    /\ IF LegacyEnsureUser(r) = <<>>
       THEN Respond(r, UserNotFound)
       ELSE Await(r, "delete", [local[r] EXCEPT !.uid = LegacyUid(r)])
    /\ UNCHANGED <<server, users, tasks, taskSeq, now>>

\* `result.changes === 0`
LegacyDeleteAnswer(result) ==
    IF result.changes = 0
    THEN JsonMessage(404, "Task not found")
    ELSE SendEmpty(204)

LegacyDeleteRun(r) ==
    /\ server = "legacy"
    /\ pc[r] = "delete" /\ request[r].op = "delete"
    /\ LET removed == DeleteTaskOwned(tasks, request[r].taskId, local[r].uid)
       IN /\ tasks' = tasks \ removed
          /\ Respond(r, LegacyDeleteAnswer(runAsync(0, Cardinality(removed))))
    /\ UNCHANGED <<server, users, taskSeq, now>>

----------------------------------------------------------------------------
(* Initial states *)

Servers == {"mysql", "sqlite", "legacy"}

SeedUsers ==
    {UserRow(1, <<"n">>, <<"a">>, hashPassword(GoodPassword, 1)),
     UserRow(2, <<"n">>, <<"c">>, hashPassword(GoodPassword, 2))}

SeedTasks ==
    {TaskRow(1, 1, <<"t">>, 0, 0, 0), TaskRow(2, 2, <<"t">>, 0, 0, 0)}

Init ==
    /\ server \in Servers
    /\ \/ users = {} /\ tasks = {} /\ taskSeq = 1
       \/ users = SeedUsers /\ tasks = SeedTasks /\ taskSeq = 3
    /\ now = 0
    /\ pc = [r \in Requests |-> "idle"]
    /\ request = [r \in Requests |-> NoRequest]
    /\ local = [r \in Requests |-> NoLocal]
    /\ response = [r \in Requests |-> NoResponse]
    /\ callText = NoText /\ callParams = <<>> /\ callResult = NoResult
    /\ seedFile = "absent" /\ starts = 1 /\ dbReady = "resolved"
    /\ cached = Connected /\ creates = 1 /\ caller = [c \in Callers |-> NoCaller]
    /\ state = LoggedOut /\ calls = [c \in Calls |-> NoCall]

Next ==
    \E r \in Requests :
        \/ Receive(r)
        \/ RegisterStart(r)
        \/ RegisterPrecheck(r)
        \/ RegisterHash(r)
        \/ RegisterInsert(r)
        \/ RegisterFallbackInsert(r)
        \/ RegisterReadBack(r)
        \/ LoginStart(r)
        \/ LoginLookup(r)
        \/ LoginCompare(r)
        \/ TasksStart(r)
        \/ ListUser(r)
        \/ ListQuery(r)
        \/ CreateUser(r)
        \/ CreateInsert(r)
        \/ CreateFallbackInsert(r)
        \/ CreateReadBack(r)
        \/ UpdateUser(r)
        \/ UpdateFind(r)
        \/ UpdateRun(r)
        \/ DeleteUser(r)
        \/ DeleteRun(r)
        \/ LegacyRegisterStart(r)
        \/ LegacyRegisterPrecheck(r)
        \/ LegacyRegisterHash(r)
        \/ LegacyRegisterInsert(r)
        \/ LegacyRegisterReadBack(r)
        \/ LegacyLoginStart(r)
        \/ LegacyLoginLookup(r)
        \/ LegacyLoginCompare(r)
        \/ LegacyTasksStart(r)
        \/ LegacyListUser(r)
        \/ LegacyListQuery(r)
        \/ LegacyCreateUser(r)
        \/ LegacyCreateInsert(r)
        \/ LegacyCreateReadBack(r)
        \/ LegacyUpdateUser(r)
        \/ LegacyUpdateFind(r)
        \/ LegacyUpdateRun(r)
        \/ LegacyUpdateReadBack(r)
        \/ LegacyDeleteUser(r)
        \/ LegacyDeleteRun(r)

Spec == Init /\ [][Next]_vars

----------------------------------------------------------------------------
(* The two backends side by side: the process of MYSQL_URL answers a       *)
(* request on the networked backend, then a process without MYSQL_URL      *)
(* answers the same request on the embedded backend, whose database holds  *)
(* the contents the networked one started with.  Request 1 is the request  *)
(* on the networked backend, request 2 the same request on the embedded    *)
(* one.                                                                    *)

InitBackends ==
    /\ server = "mysql"
    /\ users = SeedUsers /\ tasks = SeedTasks /\ taskSeq = 3
    /\ now = 0
    /\ pc = [r \in Requests |-> "idle"]
    /\ request = [r \in Requests |-> NoRequest]
    /\ local = [r \in Requests |-> NoLocal]
    /\ response = [r \in Requests |-> NoResponse]
    /\ callText = NoText /\ callParams = <<>> /\ callResult = NoResult
    /\ seedFile = "absent" /\ starts = 1 /\ dbReady = "resolved"
    /\ cached = Connected /\ creates = 1 /\ caller = [c \in Callers |-> NoCaller]
    /\ state = LoggedOut /\ calls = [c \in Calls |-> NoCall]

\* the request reaches the process on the networked backend
FirstReceive(r) == r = 1 /\ Receive(r)

\* the same request reaches the process on the embedded backend
Replay ==
    /\ server = "mysql"
    /\ pc[1] = "done" /\ pc[2] = "idle"
    /\ server' = "sqlite"
    /\ users' = SeedUsers /\ tasks' = SeedTasks /\ taskSeq' = 3
    /\ now' = 0
    /\ request' = [request EXCEPT ![2] = request[1]]
    /\ pc' = [pc EXCEPT ![2] = "received"]
    /\ UNCHANGED <<local, response>>
    /\ UNCHANGED <<callVars, clientVars, bootVars, connVars>>

NextBackends ==
    \/ Replay
    \/ \E r \in Requests :
        \/ FirstReceive(r)
        \/ RegisterStart(r)
        \/ RegisterPrecheck(r)
        \/ RegisterHash(r)
        \/ RegisterInsert(r)
        \/ RegisterFallbackInsert(r)
        \/ RegisterReadBack(r)
        \/ LoginStart(r)
        \/ LoginLookup(r)
        \/ LoginCompare(r)
        \/ TasksStart(r)
        \/ ListUser(r)
        \/ ListQuery(r)
        \/ CreateUser(r)
        \/ CreateInsert(r)
        \/ CreateFallbackInsert(r)
        \/ CreateReadBack(r)
        \/ UpdateUser(r)
        \/ UpdateFind(r)
        \/ UpdateRun(r)
        \/ DeleteUser(r)
        \/ DeleteRun(r)

SpecBackends == InitBackends /\ [][NextBackends]_vars

----------------------------------------------------------------------------
(* One query(text, params) call of db.js on its own, for every statement   *)
(* kind, placeholder order and parameter list, on both backends.           *)

StatementKinds == {"select", "insert", "update", "delete"}

\* placeholder sequences that use $1..$n, each at least once
HoleLists ==
    UNION {{h \in [1..len -> 1..MaxParams] :
               \E n \in 1..MaxParams : {h[k] : k \in 1..len} = 1..n} :
           len \in 1..MaxHoles}

Statements == {[kind |-> k, holes |-> h] : k \in StatementKinds, h \in HoleLists}

ParamValues == {"x", "y"}

\* the parameter lists for $1..$n
ParamLists(holes) ==
    LET n == Cardinality({holes[k] : k \in 1..Len(holes)})
    IN [1..n -> ParamValues]

\* the rows a SELECT matching n rows returns
MatchedRows(n) == [i \in 1..n |-> [id |-> i]]

InitQuery ==
    /\ server \in {"mysql", "sqlite"}
    /\ users = {} /\ tasks = {} /\ taskSeq = 1
    /\ now = 0
    /\ pc = [r \in Requests |-> "idle"]
    /\ request = [r \in Requests |-> NoRequest]
    /\ local = [r \in Requests |-> NoLocal]
    /\ response = [r \in Requests |-> NoResponse]
    /\ callText \in Statements
    /\ callParams \in ParamLists(callText.holes)
    /\ callResult = NoResult
    /\ seedFile = "absent" /\ starts = 1 /\ dbReady = "resolved"
    /\ cached = Connected /\ creates = 1 /\ caller = [c \in Callers |-> NoCaller]
    /\ state = LoggedOut /\ calls = [c \in Calls |-> NoCall]

\* db.js query(text, params) runs: the placeholders are translated, the
\* parameters bound, and the driver's outcome is shaped into { rows, rowCount }
Execute ==
    /\ callResult = NoResult
    /\ \E n \in 0..MaxMatched :
         LET marks == Translate(callText.holes)
             error == BindError(useMySql, marks, callParams)
         IN callResult' =
              IF error # ""
              THEN [NoResult EXCEPT !.done = TRUE, !.error = error]
              ELSE [done |-> TRUE, error |-> "", bound |-> Bind(marks, callParams),
                    matched |-> n,
                    shape |-> query(useMySql, callText.kind = "select",
                                    MatchedRows(n), n)]
    /\ UNCHANGED <<server, users, tasks, taskSeq, now, pc, request, local,
                   response, callText, callParams, bootVars, connVars, clientVars>>

NextQuery == Execute

SpecQuery == InitQuery /\ [][NextQuery]_vars

----------------------------------------------------------------------------
(* Process start and bootstrapDatabase (db.js).  On the networked backend  *)
(* bootstrap issues CREATE TABLE IF NOT EXISTS for both tables.  On the    *)
(* embedded backend, and in the earlier server's db module, it executes    *)
(* database/schema.sql and then database/seed.sql, whenever the files       *)
(* exist.  The files are read when bootstrap runs: the seed file is an     *)
(* input, here absent, or a script that inserts a task for user 1, or a    *)
(* script that inserts a user and a task for that user.                   *)

SeedFiles == {"absent", "task", "user and task"}

SeedEmail == <<"a">>

InitBoot ==
    /\ server \in Servers
    /\ \/ users = {} /\ tasks = {} /\ taskSeq = 1
       \/ users = SeedUsers /\ tasks = {} /\ taskSeq = 1
       \/ users = SeedUsers /\ tasks = SeedTasks /\ taskSeq = 3
    /\ now = 0
    /\ pc = [r \in Requests |-> "idle"]
    /\ request = [r \in Requests |-> NoRequest]
    /\ local = [r \in Requests |-> NoLocal]
    /\ response = [r \in Requests |-> NoResponse]
    /\ callText = NoText /\ callParams = <<>> /\ callResult = NoResult
    /\ seedFile \in SeedFiles
    /\ starts = 1
    /\ dbReady = "pending"
    /\ cached = Connected /\ creates = 1 /\ caller = [c \in Callers |-> NoCaller]
    /\ state = LoggedOut /\ calls = [c \in Calls |-> NoCall]

\* applySqlFile(SEED_FILE): db.exec runs the script's statements in order and
\* stops at the first that fails.  The outcome: the rows afterwards, and
\* whether exec reported an error.
applySeedFile(file, U, T, seq, t) ==
    CASE file = "absent" ->
           [users |-> U, tasks |-> T, taskSeq |-> seq, error |-> FALSE]
      [] file = "task" ->
           IF \E u \in U : u.id = 1
           THEN [users |-> U,
                 tasks |-> T \cup {TaskRow(seq, 1, <<"t">>, 0, t, t)},
                 taskSeq |-> seq + 1, error |-> FALSE]
           ELSE [users |-> U, tasks |-> T, taskSeq |-> seq, error |-> TRUE]
      [] OTHER ->
           IF SchemaEmailTaken(U, SeedEmail)
           THEN [users |-> U, tasks |-> T, taskSeq |-> seq, error |-> TRUE]
           ELSE [users |-> U \cup {UserRow(NextUserId(U), <<"n">>, SeedEmail,
                                           hashPassword(GoodPassword, 1))},
                 tasks |-> T \cup {TaskRow(seq, NextUserId(U), <<"t">>, 0, t, t)},
                 taskSeq |-> seq + 1, error |-> FALSE]

\* bootstrapDatabase() runs to its end
bootstrapDatabase ==
    /\ dbReady = "pending"
    /\ IF useMySql
       THEN /\ dbReady' = "resolved"
            /\ UNCHANGED <<users, tasks, taskSeq, now>>
       ELSE /\ taskSeq <= MaxTasks
            /\ Cardinality(users) < MaxUsers
            /\ \E t \in ClockReads :
                 LET seeded == applySeedFile(seedFile, users, tasks, taskSeq, t)
                 IN /\ users' = seeded.users
                    /\ tasks' = seeded.tasks
                    /\ taskSeq' = seeded.taskSeq
                    /\ now' = t
                    /\ dbReady' = IF seeded.error THEN "rejected" ELSE "resolved"
    /\ UNCHANGED <<server, pc, request, local, response, callVars, clientVars, seedFile, starts,
                   connVars>>

\* the process is started again: app.js calls bootstrapDatabase() when it is
\* loaded
StartProcess ==
    /\ dbReady # "pending"
    /\ starts < MaxStarts
    /\ starts' = starts + 1
    /\ dbReady' = "pending"
    /\ UNCHANGED <<server, users, tasks, taskSeq, now, pc, request, local,
                   response, callVars, clientVars, seedFile, connVars>>

NextBoot == bootstrapDatabase \/ StartProcess

SpecBoot == InitBoot /\ [][NextBoot]_vars

----------------------------------------------------------------------------
(* Requests that arrive while the process starts (app.js lines 12-16): the *)
(* first middleware holds every request until dbReady settles, passes it   *)
(* on when bootstrap succeeded and passes the error to Express when it     *)
(* failed.  No error-handling middleware is registered, so the error       *)
(* reaches Express's default error handler.                                *)

\* Express's default error handler: status err.status || 500 and an HTML
\* page (the stack trace outside production)
DefaultErrorPage ==
    [status |-> 500, kind |-> "html", message |-> "", user |-> <<>>, tasks |-> <<>>]

InitStartup ==
    /\ InitBoot
    /\ server \in {"mysql", "sqlite"}

\* a request reaches the process and waits in the first middleware
Arrive(r) ==
    /\ r = 1
    /\ pc[r] = "idle"
    /\ \E req \in RequestInputs : request' = [request EXCEPT ![r] = req]
    /\ pc' = [pc EXCEPT ![r] = "gate"]
    /\ UNCHANGED <<server, users, tasks, taskSeq, now, local, response>>
    /\ UNCHANGED <<callVars, clientVars, bootVars, connVars>>

ReadyGateNoWait(r) ==
    /\ pc[r] = "gate"
    /\ pc' = [pc EXCEPT ![r] = "received"]
    /\ UNCHANGED <<request, local, response>>
    /\ UNCHANGED <<callVars, clientVars, bootVars, connVars>>
    /\ UNCHANGED <<server, users, tasks, taskSeq, now>>

\* lines 14-16: dbReady.then(() => next()).catch(next)
ReadyGate(r) ==
    /\ pc[r] = "gate"
    /\ dbReady # "pending"
    /\ IF dbReady = "resolved"
       THEN /\ pc' = [pc EXCEPT ![r] = "received"]
            /\ UNCHANGED <<request, local, response>>
            /\ UNCHANGED <<callVars, clientVars, bootVars, connVars>>
       ELSE Respond(r, DefaultErrorPage)
    /\ UNCHANGED <<server, users, tasks, taskSeq, now>>

NextStartup ==
    \/ bootstrapDatabase
    \/ \E r \in Requests :
        \/ Arrive(r)
        \/ ReadyGate(r)
        \/ RegisterStart(r)
        \/ RegisterPrecheck(r)
        \/ RegisterHash(r)
        \/ RegisterInsert(r)
        \/ RegisterFallbackInsert(r)
        \/ RegisterReadBack(r)
        \/ LoginStart(r)
        \/ LoginLookup(r)
        \/ LoginCompare(r)
        \/ TasksStart(r)
        \/ ListUser(r)
        \/ ListQuery(r)
        \/ CreateUser(r)
        \/ CreateInsert(r)
        \/ CreateFallbackInsert(r)
        \/ CreateReadBack(r)
        \/ UpdateUser(r)
        \/ UpdateFind(r)
        \/ UpdateRun(r)
        \/ DeleteUser(r)
        \/ DeleteRun(r)

SpecStartup == InitStartup /\ [][NextStartup]_vars

----------------------------------------------------------------------------
(* The connection handle: getMySqlPool and getSqliteDb (db.js) and         *)
(* connectDB (unnamed/part_001, the serverless document-store server).     *)
(* The first two run from their call to their return without an await;    *)
(* connectDB awaits the connection promise, and other callers run while    *)
(* it waits.                                                               *)

ConnectServers == {"mysql", "sqlite", "mongoServerless"}

InitConnect ==
    /\ server \in ConnectServers
    /\ users = {} /\ tasks = {} /\ taskSeq = 1
    /\ now = 0
    /\ pc = [r \in Requests |-> "idle"]
    /\ request = [r \in Requests |-> NoRequest]
    /\ local = [r \in Requests |-> NoLocal]
    /\ response = [r \in Requests |-> NoResponse]
    /\ callText = NoText /\ callParams = <<>> /\ callResult = NoResult
    /\ seedFile = "absent" /\ starts = 1 /\ dbReady = "resolved"
    /\ cached = NoCache /\ creates = 0 /\ caller = [c \in Callers |-> NoCaller]
    /\ state = LoggedOut /\ calls = [c \in Calls |-> NoCall]

PromiseAlwaysMissing(cache) == TRUE

\* `!cached.promise`
PromiseMissing(cache) == cache.promise = "none"

\* `if (!mysqlPool) { mysqlPool = mysql.createPool(...) } return mysqlPool`
\* and the same of getSqliteDb: the handle after the call, and whether the
\* call created it
GetHandle(cache, made) ==
    IF cache.conn = 0
    THEN [cache |-> [cache EXCEPT !.conn = made + 1], creates |-> made + 1]
    ELSE [cache |-> cache, creates |-> made]

getMySqlPool(c) ==
    /\ server = "mysql"
    /\ caller[c].at = "idle"
    /\ LET got == GetHandle(cached, creates)
       IN /\ cached' = got.cache
          /\ creates' = got.creates
          /\ caller' = [caller EXCEPT ![c] = [at |-> "returned",
                                              handle |-> got.cache.conn]]
    /\ UNCHANGED <<server, users, tasks, taskSeq, now, pc, request, local,
                   response, callVars, clientVars, bootVars>>

getSqliteDb(c) ==
    /\ server = "sqlite"
    /\ caller[c].at = "idle"
    /\ LET got == GetHandle(cached, creates)
       IN /\ cached' = got.cache
          /\ creates' = got.creates
          /\ caller' = [caller EXCEPT ![c] = [at |-> "returned",
                                              handle |-> got.cache.conn]]
    /\ UNCHANGED <<server, users, tasks, taskSeq, now, pc, request, local,
                   response, callVars, clientVars, bootVars>>

\* part_001 lines 29-37, up to the await: return the handle that is there,
\* else start connecting unless a promise is there, and await the promise
connectDB(c) ==
    /\ server = "mongoServerless"
    /\ caller[c].at = "idle"
    /\ IF cached.conn # 0
       THEN /\ caller' = [caller EXCEPT ![c] = [at |-> "returned",
                                                handle |-> cached.conn]]
            /\ UNCHANGED <<cached, creates>>
       ELSE /\ caller' = [caller EXCEPT ![c].at = "awaiting"]
            /\ IF PromiseMissing(cached)
               THEN /\ cached' = [cached EXCEPT !.promise = "pending"]
                    /\ creates' = creates + 1
               ELSE UNCHANGED <<cached, creates>>
    /\ UNCHANGED <<server, users, tasks, taskSeq, now, pc, request, local,
                   response, callVars, clientVars, bootVars>>

\* mongoose.connect settles: it resolves to the mongoose instance, or rejects
ConnectSettles ==
    /\ server = "mongoServerless"
    /\ cached.promise = "pending"
    /\ \E outcome \in {"resolved", "rejected"} :
         cached' = [cached EXCEPT !.promise = outcome]
    /\ UNCHANGED <<server, users, tasks, taskSeq, now, pc, request, local,
                   response, callVars, clientVars, bootVars, creates, caller>>

\* part_001 lines 37-38, after the await: keep the handle and return it; a
\* rejected promise throws out of connectDB
connectDBResume(c) ==
    /\ server = "mongoServerless"
    /\ caller[c].at = "awaiting"
    /\ cached.promise \in {"resolved", "rejected"}
    /\ IF cached.promise = "resolved"
       THEN /\ cached' = [cached EXCEPT !.conn = 1]
            /\ caller' = [caller EXCEPT ![c] = [at |-> "returned", handle |-> 1]]
       ELSE /\ caller' = [caller EXCEPT ![c].at = "thrown"]
            /\ UNCHANGED cached
    /\ UNCHANGED <<server, users, tasks, taskSeq, now, pc, request, local,
                   response, callVars, clientVars, bootVars, creates>>

NextConnect ==
    \/ ConnectSettles
    \/ \E c \in Callers :
        \/ getMySqlPool(c)
        \/ getSqliteDb(c)
        \/ connectDB(c)
        \/ connectDBResume(c)

SpecConnect == InitConnect /\ [][NextConnect]_vars

----------------------------------------------------------------------------
(* The document-store servers: unnamed/part_003 ("mongo") and the          *)
(* serverless unnamed/part_001 ("mongoServerless"), whose handlers first   *)
(* await connectDB() and answer every error with the text "Server error".  *)
(* Collections users and tasks hold the documents; an ObjectId is modelled *)
(* by a number, and a text casts to an ObjectId when it is all digits.     *)
(* The handlers use the body's fields as they come: nothing is trimmed or  *)
(* lower-cased, and no handler of tasks looks the path user up.            *)

MongoServers == {"mongo", "mongoServerless"}

\* the connection of part_001 after its start: there, or failed for good
MongoConnections ==
    {[conn |-> 1, promise |-> "resolved"], [conn |-> 0, promise |-> "rejected"]}

InitMongo ==
    /\ server \in MongoServers
    /\ \/ users = {} /\ tasks = {} /\ taskSeq = 1
       \/ users = SeedUsers /\ tasks = SeedTasks /\ taskSeq = 3
    /\ now = 0
    /\ pc = [r \in Requests |-> "idle"]
    /\ request = [r \in Requests |-> NoRequest]
    /\ local = [r \in Requests |-> NoLocal]
    /\ response = [r \in Requests |-> NoResponse]
    /\ callText = NoText /\ callParams = <<>> /\ callResult = NoResult
    /\ seedFile = "absent" /\ starts = 1 /\ dbReady = "resolved"
    /\ IF server = "mongoServerless"
       THEN cached \in MongoConnections
       ELSE cached = Connected
    /\ creates = 1
    /\ caller = [c \in Callers |-> NoCaller]
    /\ state = LoggedOut /\ calls = [c \in Calls |-> NoCall]

CastToObjectIdFailed == Error(0, "Cast to ObjectId failed for value at path")
CastToBooleanFailed == Error(0, "Cast to Boolean failed for value at path")
MongoDuplicateKey == Error(0, "E11000 duplicate key error collection: users index: email_1")
BcryptIllegalArguments == Error(0, "Illegal arguments: undefined, string")
MongoConnectionFailed == Error(0, "connect ECONNREFUSED")

\* the catch blocks: part_001 answers a fixed text, part_003 error.message
MongoError(error) ==
    JsonMessage(500, IF server = "mongoServerless" THEN "Server error"
                     ELSE error.message)

\* a text casts to an ObjectId
IsObjectId(text) == text # <<>> /\ \A i \in 1..Len(text) : IsDigit(text[i])

\* { id: user._id, name: user.name, email: user.email }
MongoUser(row) == [id |-> row.id, name |-> row.name, email |-> row.email]

\* res.json(task): the document as stored
TaskDoc(row) ==
    [id |-> row.id, userId |-> row.user_id, title |-> row.title,
     completed |-> (row.completed # 0),
     createdAt |-> row.created_at, updatedAt |-> row.updated_at]

TaskDocs(rows) == [i \in 1..Len(rows) |-> TaskDoc(rows[i])]

\* where a handler's own code starts: part_001 has awaited connectDB() first
MongoAt(r) ==
    \/ server = "mongo" /\ pc[r] = "received"
    \/ server = "mongoServerless" /\ pc[r] = "connected"

\* part_001 `await connectDB()`: the handle, or the connection error
MongoConnected(r) ==
    /\ server = "mongoServerless"
    /\ pc[r] = "received"
    /\ IF cached.conn # 0
       THEN Await(r, "connected", local[r])
       ELSE Respond(r, MongoError(MongoConnectionFailed))
    /\ UNCHANGED <<server, users, tasks, taskSeq, now>>

\* part_003 lines 52-60: the fields as sent; then findOne({ email })
MongoRegisterStart(r) ==
    /\ server \in MongoServers
    /\ MongoAt(r) /\ request[r].op = "register"
    /\ LET b == request[r].body IN
       IF ~Truthy(b.name) \/ ~Truthy(b.email) \/ ~Truthy(b.password)
       THEN Respond(r, JsonMessage(400, "All fields required"))
       ELSE IF PasswordTooShort(b.password)
       THEN Respond(r, JsonMessage(400, "Password must be at least 6 characters"))
       ELSE Await(r, "precheck",
                  [local[r] EXCEPT !.name = JsString(b.name), !.email = b.email.s,
                                   !.password = b.password.s])
    /\ UNCHANGED <<server, users, tasks, taskSeq, now>>

\* lines 60-64
MongoRegisterPrecheck(r) ==
    /\ server \in MongoServers
    /\ pc[r] = "precheck" /\ request[r].op = "register"
    /\ IF SelectUserByEmail(users, local[r].email, {"id"}) # <<>>
       THEN Respond(r, JsonMessage(409, "Email already registered"))
       ELSE Await(r, "hash", local[r])
    /\ UNCHANGED <<server, users, tasks, taskSeq, now>>

\* line 64
MongoRegisterHash(r) ==
    /\ server \in MongoServers
    /\ pc[r] = "hash" /\ request[r].op = "register"
    /\ \E salt \in Salts :
         Await(r, "insert",
               [local[r] EXCEPT !.passwordHash = hashPassword(local[r].password, salt)])
    /\ UNCHANGED <<server, users, tasks, taskSeq, now>>

\* lines 66-74: User.create; the unique index on email rejects a duplicate
MongoRegisterCreate(r) ==
    /\ server \in MongoServers
    /\ pc[r] = "insert" /\ request[r].op = "register"
    /\ IF EmailTaken(users, local[r].email)
       THEN /\ Respond(r, MongoError(MongoDuplicateKey))
            /\ UNCHANGED users
       ELSE /\ Cardinality(users) < MaxUsers
            /\ LET user == UserRow(NextUserId(users), local[r].name, local[r].email,
                                   local[r].passwordHash)
               IN /\ users' = users \cup {user}
                  /\ Respond(r, JsonUser(201, MongoUser(user)))
    /\ UNCHANGED <<server, tasks, taskSeq, now>>

\* User.findOne({ email }): the document with that email; a filter whose
\* email is undefined matches nothing or any document, by the driver's
\* handling of undefined
MongoFindByEmail(U, email) ==
    IF email.t = "undefined"
    THEN {<<>>} \cup {<<u>> : u \in U}
    ELSE {SelectUserByEmail(U, email.s, UserLoginCols)}

\* lines 83-87
MongoLoginLookup(r) ==
    /\ server \in MongoServers
    /\ MongoAt(r) /\ request[r].op = "login"
    /\ \E rows \in MongoFindByEmail(users, request[r].body.email) :
         LoginFound(r, rows)
    /\ UNCHANGED <<server, users, tasks, taskSeq, now>>

\* lines 89-95: bcrypt.compare rejects a password that is no string
MongoLoginCompare(r) ==
    /\ server \in MongoServers
    /\ pc[r] = "compare" /\ request[r].op = "login"
    /\ LET user == local[r].rows[1]
           password == request[r].body.password
       IN IF password.t # "string"
          THEN Respond(r, MongoError(BcryptIllegalArguments))
          ELSE IF ~comparePassword(password.s, user.password_hash)
          THEN Respond(r, JsonMessage(401, "Invalid credentials"))
          ELSE Respond(r, JsonUser(200, MongoUser(user)))
    /\ UNCHANGED <<server, users, tasks, taskSeq, now>>

\* lines 106-116: Task.find({ userId }).sort({ createdAt: -1 })
MongoList(r) ==
    /\ server \in MongoServers
    /\ MongoAt(r) /\ request[r].op = "list"
    /\ IF ~IsObjectId(request[r].userId)
       THEN Respond(r, MongoError(CastToObjectIdFailed))
       ELSE \E rows \in ByCreatedAtDesc({t \in tasks :
                                           IdMatches(t.user_id, request[r].userId)}) :
              Respond(r, JsonTasks(200, TaskDocs(rows)))
    /\ UNCHANGED <<server, users, tasks, taskSeq, now>>

\* lines 120-123: `!title`
MongoCreateStart(r) ==
    /\ server \in MongoServers
    /\ MongoAt(r) /\ request[r].op = "create"
    /\ IF ~Truthy(request[r].body.title)
       THEN Respond(r, JsonMessage(400, "Task title required"))
       ELSE Await(r, "insert", [local[r] EXCEPT !.title = JsString(request[r].body.title)])
    /\ UNCHANGED <<server, users, tasks, taskSeq, now>>

\* lines 125-130: Task.create({ userId: req.params.userId, title })
MongoCreateInsert(r) ==
    /\ server \in MongoServers
    /\ pc[r] = "insert" /\ request[r].op = "create"
    /\ IF ~IsObjectId(request[r].userId)
       THEN /\ Respond(r, MongoError(CastToObjectIdFailed))
            /\ UNCHANGED <<tasks, taskSeq, now>>
       ELSE /\ taskSeq <= MaxTasks
            /\ \E t \in ClockReads :
                 LET task == TaskRow(taskSeq, ParseDigits(request[r].userId, 0),
                                     local[r].title, 0, t, t)
                 IN /\ tasks' = tasks \cup {task}
                    /\ now' = t
                    /\ Respond(r, JsonTask(201, TaskDoc(task)))
            /\ taskSeq' = taskSeq + 1
    /\ UNCHANGED <<server, users>>

\* the update document cast to the schema: a completed that is no boolean
\* (and none of the texts that cast to one) fails the cast
MongoUpdateCastFails(body) == body.completed.t \notin {"undefined", "boolean"}

\* the document after $set of the body's fields and of updatedAt
MongoUpdated(row, body, t) ==
    [row EXCEPT !.title = IF body.title.t = "undefined" THEN @ ELSE JsString(body.title),
                !.completed = IF body.completed.t = "boolean"
                              THEN (IF body.completed.b THEN 1 ELSE 0) ELSE @,
                !.updated_at = t]

\* lines 139-148: Task.findByIdAndUpdate(req.params.taskId, req.body, { new: true })
MongoUpdate(r) ==
    /\ server \in MongoServers
    /\ MongoAt(r) /\ request[r].op = "update"
    /\ IF ~IsObjectId(request[r].taskId) \/ MongoUpdateCastFails(request[r].body)
       THEN /\ Respond(r, MongoError(IF ~IsObjectId(request[r].taskId)
                                     THEN CastToObjectIdFailed ELSE CastToBooleanFailed))
            /\ UNCHANGED <<tasks, now>>
       ELSE LET found == SelectTaskAnyOwner(tasks, request[r].taskId, 0)
            IN IF found = <<>>
               THEN /\ Respond(r, JsonMessage(404, "Task not found"))
                    /\ UNCHANGED <<tasks, now>>
               ELSE \E t \in ClockReads :
                      LET updated == MongoUpdated(found[1], request[r].body, t)
                      IN /\ tasks' = (tasks \ {found[1]}) \cup {updated}
                         /\ now' = t
                         /\ Respond(r, JsonTask(200, TaskDoc(updated)))
    /\ UNCHANGED <<server, users, taskSeq>>

\* lines 157-158: Task.findByIdAndDelete(req.params.taskId), then 204
MongoDelete(r) ==
    /\ server \in MongoServers
    /\ MongoAt(r) /\ request[r].op = "delete"
    /\ IF ~IsObjectId(request[r].taskId)
       THEN /\ Respond(r, MongoError(CastToObjectIdFailed))
            /\ UNCHANGED tasks
       ELSE /\ tasks' = tasks \ DeleteTaskAnyOwner(tasks, request[r].taskId, 0)
            /\ Respond(r, SendEmpty(204))
    /\ UNCHANGED <<server, users, taskSeq, now>>

NextMongo ==
    \E r \in Requests :
        \/ Receive(r)
        \/ MongoConnected(r)
        \/ MongoRegisterStart(r)
        \/ MongoRegisterPrecheck(r)
        \/ MongoRegisterHash(r)
        \/ MongoRegisterCreate(r)
        \/ MongoLoginLookup(r)
        \/ MongoLoginCompare(r)
        \/ MongoList(r)
        \/ MongoCreateStart(r)
        \/ MongoCreateInsert(r)
        \/ MongoUpdate(r)
        \/ MongoDelete(r)

SpecMongo == InitMongo /\ [][NextMongo]_vars

----------------------------------------------------------------------------
(* The browser client (frontend/app.js).  state.user is null (here the     *)
(* empty sequence) or the logged-in user, state.tasks the list shown.      *)
(* Every function that talks to the server awaits request(url, options);   *)
(* between the sending of the HTTP request and the resumption of the       *)
(* function the page handles other events, a click on the logout button    *)
(* and further submits included.  The server is the environment of the     *)
(* client here: it answers an exchange with the endpoint's success answer  *)
(* or with an error status.                                                *)

\* the statuses of a response with response.ok false that the client meets
ErrorStatuses == {401, 404, 500}

\* response.ok
Ok(status) == status \in 200..299

ClientServers == {"mysql", "sqlite"}

\* a user kept in localStorage whose row is not in the store any more
StaleUser == [id |-> 3, name |-> <<"n">>, email |-> <<"d">>]

\* loadStoredUser(): null, or the user a former visit stored
StoredUsers == {<<>>, <<StaleUser>>} \cup {<<sanitizeUser(u)>> : u \in SeedUsers}

\* fetchTasks() up to its await: nothing without a user, else GET
\* /api/users/<state.user.id>/tasks is sent
fetchTasks(st, fn) ==
    IF st.user = <<>>
    THEN [NoCall EXCEPT !.fn = fn, !.at = "done"]
    ELSE [NoCall EXCEPT !.fn = fn, !.at = "fetch", !.userId = st.user[1].id]

\* the script has run (lines 20-24, 285-287): state.user is the stored user,
\* and with a user the page's first fetchTasks() is in flight
InitClient ==
    /\ server \in ClientServers
    /\ users = SeedUsers /\ tasks = SeedTasks /\ taskSeq = 3
    /\ now = 0
    /\ pc = [r \in Requests |-> "idle"]
    /\ request = [r \in Requests |-> NoRequest]
    /\ local = [r \in Requests |-> NoLocal]
    /\ response = [r \in Requests |-> NoResponse]
    /\ callText = NoText /\ callParams = <<>> /\ callResult = NoResult
    /\ seedFile = "absent" /\ starts = 1 /\ dbReady = "resolved"
    /\ cached = Connected /\ creates = 1 /\ caller = [c \in Callers |-> NoCaller]
    /\ \E stored \in StoredUsers :
         /\ state = [user |-> stored, tasks |-> <<>>]
         /\ calls = [c \in Calls |->
                       IF c = 1 THEN fetchTasks([user |-> stored], "load")
                       ELSE NoCall]

ClientOnly ==
    UNCHANGED <<server, pc, request, local, response, callVars, bootVars, connVars>>

\* the server answers the exchange of call c
Answer(c) ==
    LET call == calls[c]
        known == \E u \in users : u.id = call.userId
        owned == {t \in tasks : t.id = call.taskId /\ t.user_id = call.userId}
        fails(status) ==
            /\ calls' = [calls EXCEPT ![c].answered = TRUE, ![c].status = status]
            /\ UNCHANGED <<users, tasks, taskSeq, now>>
    IN
    /\ call.at \in {"request", "fetch"}
    /\ ~call.answered
    /\ \/ \E status \in ErrorStatuses : fails(status)
       \/ /\ call.at = "fetch" /\ known
          /\ \E rows \in ByCreatedAtDesc({t \in tasks : t.user_id = call.userId}) :
               calls' = [calls EXCEPT ![c].answered = TRUE, ![c].status = 200,
                                      ![c].data = MapTasks(rows)]
          /\ UNCHANGED <<users, tasks, taskSeq, now>>
       \/ /\ call.at = "request" /\ call.fn = "auth" /\ known
          /\ calls' = [calls EXCEPT
                 ![c].answered = TRUE, ![c].status = 200,
                 ![c].data = <<sanitizeUser(CHOOSE u \in users : u.id = call.userId)>>]
          /\ UNCHANGED <<users, tasks, taskSeq, now>>
       \/ /\ call.at = "request" /\ call.fn = "createTask" /\ known
          /\ taskSeq <= MaxTasks
          /\ \E t \in ClockReads :
               /\ tasks' = tasks \cup {TaskRow(taskSeq, call.userId, <<"v">>, 0, t, t)}
               /\ now' = t
          /\ taskSeq' = taskSeq + 1
          /\ calls' = [calls EXCEPT ![c].answered = TRUE, ![c].status = 201]
          /\ UNCHANGED users
       \/ /\ call.at = "request" /\ call.fn = "updateTask" /\ owned # {}
          /\ \E t \in ClockReads :
               /\ tasks' = (tasks \ owned)
                              \cup {[row EXCEPT !.completed = 1, !.updated_at = t] :
                                      row \in owned}
               /\ now' = t
          /\ calls' = [calls EXCEPT ![c].answered = TRUE, ![c].status = 200]
          /\ UNCHANGED <<users, taskSeq>>
       \/ /\ call.at = "request" /\ call.fn = "removeTask" /\ owned # {}
          /\ tasks' = tasks \ owned
          /\ calls' = [calls EXCEPT ![c].answered = TRUE, ![c].status = 204]
          /\ UNCHANGED <<users, taskSeq, now>>
    /\ UNCHANGED state
    /\ ClientOnly

\* lines 126-141, from the await on: the answer's list becomes state.tasks;
\* an answer 401 or 404 logs the user out
fetchTasksResume(c) ==
    /\ calls[c].at = "fetch" /\ calls[c].answered
    /\ state' = IF Ok(calls[c].status)
                THEN [state EXCEPT !.tasks = calls[c].data]
                ELSE IF calls[c].status \in {401, 404}
                THEN LoggedOut
                ELSE state
    /\ calls' = [calls EXCEPT ![c].at = "done"]
    /\ UNCHANGED <<users, tasks, taskSeq, now>>
    /\ ClientOnly

\* lines 216-238: a login or register form is submitted (the forms are shown
\* while nobody is logged in) and the request is sent
handleAuthSubmit(c) ==
    /\ calls[c].at = "idle"
    /\ state.user = <<>>
    /\ \E id \in 1..MaxUsers :
         calls' = [calls EXCEPT ![c] =
                     [NoCall EXCEPT !.fn = "auth", !.at = "request", !.userId = id]]
    /\ UNCHANGED <<state, users, tasks, taskSeq, now>>
    /\ ClientOnly

\* lines 225-250, from the await on: storeUser(user), then fetchTasks()
handleAuthResume(c) ==
    /\ calls[c].fn = "auth" /\ calls[c].at = "request" /\ calls[c].answered
    /\ IF Ok(calls[c].status)
       THEN /\ state' = [state EXCEPT !.user = calls[c].data]
            /\ calls' = [calls EXCEPT ![c] = fetchTasks(state', "auth")]
       ELSE /\ calls' = [calls EXCEPT ![c].at = "done"]
            /\ UNCHANGED state
    /\ UNCHANGED <<users, tasks, taskSeq, now>>
    /\ ClientOnly

\* a function of the task list is called with a user logged in and sends its
\* request under /api/users/<state.user.id>/tasks
TaskCall(c, fn, taskId) ==
    /\ calls[c].at = "idle"
    /\ state.user # <<>>
    /\ calls' = [calls EXCEPT ![c] =
                   [NoCall EXCEPT !.fn = fn, !.at = "request",
                                  !.userId = state.user[1].id, !.taskId = taskId]]
    /\ UNCHANGED <<state, users, tasks, taskSeq, now>>
    /\ ClientOnly

\* lines 143-153
createTask(c) == TaskCall(c, "createTask", 0)

\* lines 155-168 and 183-197: toggleTask and updateTask send the same PUT for
\* a task of the list shown
updateTask(c) ==
    \E i \in 1..Len(state.tasks) : TaskCall(c, "updateTask", state.tasks[i].id)

\* lines 199-214
removeTask(c) ==
    \E i \in 1..Len(state.tasks) : TaskCall(c, "removeTask", state.tasks[i].id)

\* createTask, toggleTask, updateTask and removeTask from their await on:
\* an error ends the call, a success goes on to fetchTasks()
TaskCallResume(c) ==
    /\ calls[c].fn \in {"createTask", "updateTask", "removeTask"}
    /\ calls[c].at = "request" /\ calls[c].answered
    /\ calls' = [calls EXCEPT ![c] =
                   IF Ok(calls[c].status) THEN fetchTasks(state, calls[c].fn)
                   ELSE [calls[c] EXCEPT !.at = "done"]]
    /\ UNCHANGED <<state, users, tasks, taskSeq, now>>
    /\ ClientOnly

\* lines 261-266: the logout button (shown while a user is logged in)
logoutButtonClick ==
    /\ state.user # <<>>
    /\ state' = LoggedOut
    /\ UNCHANGED <<calls, users, tasks, taskSeq, now>>
    /\ ClientOnly

NextClient ==
    \/ logoutButtonClick
    \/ \E c \in Calls :
        \/ Answer(c)
        \/ fetchTasksResume(c)
        \/ handleAuthSubmit(c)
        \/ handleAuthResume(c)
        \/ createTask(c)
        \/ updateTask(c)
        \/ removeTask(c)
        \/ TaskCallResume(c)

SpecClient == InitClient /\ [][NextClient]_vars

----------------------------------------------------------------------------
(* Vocabulary of the properties *)

\* request r's handler takes a step
HandlerStep(r) == pc[r] # "idle" /\ pc'[r] # pc[r]

\* request r is answered by this step
Answered(r) == pc[r] # "done" /\ pc'[r] = "done"

IsDone(r, op) == pc[r] = "done" /\ request[r].op = op

\* the decimal numeral of n
RECURSIVE DecimalOf(_)
DecimalOf(n) ==
    IF n < 10 THEN <<Digits[n + 1]>>
    ELSE DecimalOf(n \div 10) \o <<Digits[(n % 10) + 1]>>

\* the text is exactly the numeral of n
Spells(text, n) == text = DecimalOf(n)

\* the text starts with the numeral of n and no further digit follows it
LeadsWith(text, n) ==
    LET d == DecimalOf(n) IN
    /\ Len(text) >= Len(d)
    /\ SubSeq(text, 1, Len(d)) = d
    /\ Len(text) > Len(d) => \A c \in 1..10 : Digits[c] # text[Len(d) + 1]

\* a text with its surrounding blanks removed, in lower case
Canonical(text) ==
    LET inked == {i \in 1..Len(text) : text[i] # " "}
        first == CHOOSE i \in inked : \A j \in inked : i <= j
        last == CHOOSE i \in inked : \A j \in inked : j <= i
    IN IF inked = {} THEN <<>>
       ELSE [i \in 1..(last - first + 1) |->
               IF text[first + i - 1] = "A" THEN "a"
               ELSE IF text[first + i - 1] = "B" THEN "b"
               ELSE text[first + i - 1]]

\* the canonical email of a request body, <<>> when it carries no text
BodyEmail(r) ==
    IF request[r].body.email.t = "string"
    THEN Canonical(request[r].body.email.s) ELSE <<>>

\* the body's name is a text that is not blank and its password has at least
\* MinPasswordLength characters
ValidRegisterFields(r) ==
    /\ request[r].body.name.t = "string"
    /\ Canonical(request[r].body.name.s) # <<>>
    /\ request[r].body.password.t = "string"
    /\ Len(request[r].body.password.s) >= 6

\* the path user id of r names no existing user
UnknownPathUser(r) == \A u \in users : ~LeadsWith(request[r].userId, u.id)

\* the path user id of r starts with a number
NumericPathUser(r) == \E n \in 0..99 : LeadsWith(request[r].userId, n)

\* the task the path of r names, owned by someone else than the path user,
\* who exists
ForeignTask(r) ==
    \E t \in tasks, u \in users :
        /\ Spells(request[r].taskId, t.id)
        /\ LeadsWith(request[r].userId, u.id)
        /\ t.user_id # u.id

\* the path of r names no task at all
MissingTask(r) == \A t \in tasks : ~Spells(request[r].taskId, t.id)

\* the path of r names a task of the path user
OwnTask(r) ==
    \E t \in tasks :
        /\ Spells(request[r].taskId, t.id)
        /\ Spells(request[r].userId, t.user_id)

----------------------------------------------------------------------------
(* Properties *)

\* C1: every register request whose password is shorter than 6 characters,
\* with any name and any email, is answered 400 and leaves the user rows as
\* they were.
C1_ShortPasswordIs400 ==
    [][\A r \in Requests :
         (/\ pc[r] = "received"
          /\ request[r].op = "register"
          /\ request[r].body.password.t = "string"
          /\ Len(request[r].body.password.s) < 6
          /\ HandlerStep(r))
         => (pc'[r] = "done" /\ response'[r].status = 400 /\ users' = users)]_vars

\* a registration of the canonical email of r has been answered 201, and r
\* has not yet passed its pre-check
LaterDuplicate(r) ==
    /\ request[r].op = "register"
    /\ pc[r] \in {"received", "precheck"}
    /\ \E q \in Requests :
         /\ IsDone(q, "register")
         /\ response[q].status = 201
         /\ response[q].user[1].email = BodyEmail(r)

C3_EmailsUnique ==
    \A u1, u2 \in users : u1 # u2 => Canonical(u1.email) # Canonical(u2.email)

\* two registrations of one email both passed the pre-check, and the store
\* refused the second insert
C3_Witness ==
    \E r, q \in Requests :
        /\ r # q
        /\ IsDone(q, "register") /\ response[q].status = 201
        /\ IsDone(r, "register") /\ response[r].status = 500
        /\ BodyEmail(r) = BodyEmail(q)
        /\ ValidRegisterFields(r)

\* C4: of two concurrent register requests with the same canonical email one
\* is answered 201 and the other 409: a request whose insert meets a row with
\* its email is answered 409, not 500.
C4_DuplicateInsertIs409 ==
    [][\A r \in Requests :
         (/\ server \in {"mysql", "sqlite"}
          /\ request[r].op = "register"
          /\ pc[r] \in {"precheck", "hash", "insert", "insert2"}
          /\ \E u \in users : u.email = BodyEmail(r)
          /\ Answered(r))
         => response'[r].status = 409]_vars

InvalidCredentials == JsonMessage(401, "Invalid credentials")

\* r is a login that names an email and a password, and either no user row
\* has its email, or the row's password is another one
FailingLogin(r) ==
    /\ request[r].op = "login"
    /\ BodyEmail(r) # <<>>
    /\ request[r].body.password.t = "string"
    /\ request[r].body.password.s # <<>>
    /\ \A u \in users :
         u.email = BodyEmail(r) => u.password_hash.plain # request[r].body.password.s

C6_NoHashInResponse ==
    \A r \in Requests :
        /\ \A i \in 1..Len(response[r].user) :
             DOMAIN response[r].user[i] = {"id", "name", "email"}
        /\ \A i \in 1..Len(response[r].tasks) :
             DOMAIN response[r].tasks[i] =
                 {"id", "userId", "title", "completed", "createdAt", "updatedAt"}
        /\ response[r].kind = "user" =>
             (Len(response[r].user) = 1 /\ response[r].status \in {200, 201})

C6_Witness ==
    \E r \in Requests : IsDone(r, "login") /\ response[r].status = 200

C8_ForeignDeleteIs404 ==
    [][\A r \in Requests :
         (request[r].op = "delete" /\ ForeignTask(r) /\ HandlerStep(r))
         => /\ tasks' = tasks
            /\ pc'[r] = "done" => response'[r].status = 404]_vars

C8_Witness ==
    \E r \in Requests :
        /\ IsDone(r, "delete") /\ ForeignTask(r)
        /\ response[r] = JsonMessage(404, "Task not found")

\* C9: an update of a task that exists but belongs to another user than the
\* path user is answered 404 exactly as an update of a task id that does not
\* exist, and leaves every task row unchanged.
C9_ForeignUpdateIs404 ==
    [][\A r \in Requests :
         (/\ request[r].op = "update"
          /\ ForeignTask(r) \/ (MissingTask(r) /\ ~UnknownPathUser(r))
          /\ pc[r] = "find"
          /\ HandlerStep(r))
         => /\ tasks' = tasks
            /\ pc'[r] = "done"
            /\ response'[r] = JsonMessage(404, "Task not found")]_vars

C9_Witness ==
    \E r, q \in Requests :
        /\ IsDone(r, "update") /\ ForeignTask(r)
        /\ IsDone(q, "update") /\ MissingTask(q) /\ ~UnknownPathUser(q)
        /\ response[r] = response[q]
        /\ response[r].status = 404

\* C10: on either backend a delete by the owner of an existing task is
\* answered 204 with an empty body and removes exactly that row; a second
\* delete of the same task is answered 404.
C10_OwnerDeleteIs204 ==
    [][\A r \in Requests :
         (request[r].op = "delete" /\ pc[r] = "delete" /\ HandlerStep(r))
         => /\ OwnTask(r) =>
                 /\ response'[r] = SendEmpty(204)
                 /\ \E t \in tasks :
                      Spells(request[r].taskId, t.id) /\ tasks' = tasks \ {t}
            /\ MissingTask(r) =>
                 /\ response'[r].status = 404
                 /\ tasks' = tasks]_vars

\* the stored task the path of r names
PathTask(r) == CHOOSE t \in tasks : Spells(request[r].taskId, t.id)

\* the body of r supplies completed = true and nothing else
OnlyCompletedTrue(r) ==
    /\ request[r].body.title = JUndefined
    /\ request[r].body.completed = JBoolean(TRUE)

\* C11: an update by the owner that supplies only completed = true is answered
\* 200 with the updated row: its title is the stored title, unchanged by the
\* request, and completed is true in the row and in the response.
C11_PartialUpdateKeepsTitle ==
    [][\A r \in Requests :
         (/\ request[r].op = "update"
          /\ OwnTask(r)
          /\ OnlyCompletedTrue(r)
          /\ pc[r] \in {"find", "update", "readback"}
          /\ Answered(r))
         => /\ response'[r].status = 200
            /\ response'[r].kind = "task"
            /\ response'[r].tasks[1].title = PathTask(r).title
            /\ response'[r].tasks[1].completed
            /\ \E t \in tasks' :
                 /\ t.id = PathTask(r).id
                 /\ t.title = PathTask(r).title
                 /\ t.completed = 1]_vars

\* C12: every update statement that runs sets the task's updatedAt to a value
\* strictly greater than the one it had, and leaves createdAt as it was.
C12_UpdatedAtStrictlyIncreases ==
    [][\A r \in Requests :
         (/\ request[r].op = "update"
          /\ OwnTask(r)
          /\ pc[r] = "update"
          /\ pc'[r] = "readback")
         => \E t \in tasks' :
              /\ t.id = PathTask(r).id
              /\ t.created_at = PathTask(r).created_at
              /\ t.updated_at > PathTask(r).updated_at]_vars

\* the body of r supplies a title that is blank, or a completed that is not a
\* boolean
InvalidUpdateBody(r) ==
    LET b == request[r].body IN
    \/ b.title.t = "string" /\ \A i \in 1..Len(b.title.s) : b.title.s[i] = " "
    \/ b.completed.t \notin {"undefined", "boolean"}

\* C13: an update whose title is supplied and blank, or whose completed is
\* supplied and is not a boolean, is answered 400 once the task is found, and
\* leaves the task rows unchanged.
C13_InvalidUpdateIs400 ==
    [][\A r \in Requests :
         (/\ request[r].op = "update"
          /\ OwnTask(r)
          /\ InvalidUpdateBody(r)
          /\ pc[r] = "find"
          /\ HandlerStep(r))
         => /\ pc'[r] = "done"
            /\ response'[r].status = 400
            /\ tasks' = tasks]_vars

\* a text without its leading and trailing blanks
Stripped(text) ==
    LET inked == {i \in 1..Len(text) : text[i] # " "}
        first == CHOOSE i \in inked : \A j \in inked : i <= j
        last == CHOOSE i \in inked : \A j \in inked : j <= i
    IN IF inked = {} THEN <<>> ELSE SubSeq(text, first, last)

\* the path user ids of r and q name the same existing user
SamePathUser(r, q) ==
    \E u \in users :
        LeadsWith(request[r].userId, u.id) /\ LeadsWith(request[q].userId, u.id)

\* the payloads of a list response
Listed(resp) == {resp.tasks[i] : i \in 1..Len(resp.tasks)}

\* the stored tasks of the path user of create request q that have its
\* title, trimmed, and are incomplete
StoredOf(q, T) ==
    {t \in T : /\ t.title = Stripped(request[q].body.title.s)
               /\ t.completed = 0
               /\ LeadsWith(request[q].userId, t.user_id)}

\* C14: round trip.  The row a create request stores belongs to its path
\* user, has the trimmed title of the body and is incomplete, whatever
\* completed the body carries; and a list request of that user answered after
\* the create was answered 201 contains a task of that title, incomplete, as
\* long as such a row is stored.
C14_CreateThenList ==
    [][\A r \in Requests :
         /\ (request[r].op = "create" /\ HandlerStep(r))
            => (tasks' \ tasks) \subseteq StoredOf(r, tasks')
         /\ (request[r].op = "create" /\ Answered(r) /\ response'[r].status = 201)
            => response'[r].tasks[1].completed = FALSE
         /\ (request[r].op = "list" /\ Answered(r) /\ response'[r].status = 200)
            => \A q \in Requests :
                 (/\ IsDone(q, "create")
                  /\ response[q].status = 201
                  /\ SamePathUser(r, q)
                  /\ StoredOf(q, tasks) # {})
                 => \E item \in Listed(response'[r]) :
                      /\ item.title = Stripped(request[q].body.title.s)
                      /\ item.completed = FALSE]_vars

\* a create whose body says completed = true and whose title needs trimming
\* was answered 201, and the list answered after it holds the task
C14_Witness ==
    \E r, q \in Requests :
        /\ IsDone(q, "create") /\ response[q].status = 201
        /\ request[q].body.completed = JBoolean(TRUE)
        /\ request[q].body.title.s # response[q].tasks[1].title
        /\ IsDone(r, "list") /\ response[r].status = 200
        /\ response[q].tasks[1] \in Listed(response[r])
        /\ response[q].tasks[1].completed = FALSE

\* C15: a list request for an existing user is answered 200 with exactly the
\* task rows that user owns, each once, the most recently created first.
C15_ListIsOwnTasksNewestFirst ==
    [][\A r \in Requests :
         (request[r].op = "list" /\ HandlerStep(r))
         => \A u \in users :
              Spells(request[r].userId, u.id)
              => /\ pc[r] \in {"received", "ensureUser"} => pc'[r] # "done"
                 /\ pc[r] = "query" =>
                      LET resp == response'[r]
                          mine == {t \in tasks : t.user_id = u.id}
                      IN /\ pc'[r] = "done"
                         /\ resp.status = 200
                         /\ resp.kind = "tasks"
                         /\ Len(resp.tasks) = Cardinality(mine)
                         /\ \A t \in mine :
                              \E i \in 1..Len(resp.tasks) :
                                  /\ resp.tasks[i].id = t.id
                                  /\ resp.tasks[i].userId = u.id
                                  /\ resp.tasks[i].title = t.title
                                  /\ resp.tasks[i].createdAt = t.created_at
                         /\ \A i, j \in 1..Len(resp.tasks) :
                              i < j => resp.tasks[i].createdAt >= resp.tasks[j].createdAt]_vars

\* a list was answered with two tasks of different creation times while
\* another user's task is stored
C15_Witness ==
    \E r \in Requests :
        /\ IsDone(r, "list") /\ response[r].status = 200
        /\ Len(response[r].tasks) = 2
        /\ response[r].tasks[1].createdAt > response[r].tasks[2].createdAt
        /\ \E t \in tasks : t.user_id # response[r].tasks[1].userId

\* r is a register request with a non-blank name, a password of at least 6
\* characters and an email no user row holds
FreshRegistration(r) ==
    /\ request[r].op = "register"
    /\ ValidRegisterFields(r)
    /\ BodyEmail(r) # <<>>
    /\ \A u \in users : u.email # BodyEmail(r)

\* C16: on either backend a register request with a non-blank name, a
\* password of at least 6 characters and an email no row holds is not refused:
\* it inserts exactly one row, with the canonical email and a digest of the
\* password, and is answered 201 with that row's id, name and email.
C16_RegisterSucceeds ==
    [][\A r \in Requests :
         /\ (FreshRegistration(r) /\ HandlerStep(r))
            => /\ pc'[r] # "done"
               /\ \/ users' = users
                  \/ \E u \in users' \ users :
                        /\ users' = users \cup {u}
                        /\ u.email = BodyEmail(r)
                        /\ u.name = Stripped(request[r].body.name.s)
                        /\ u.password_hash.rounds = SALT_ROUNDS
         /\ (request[r].op = "register" /\ pc[r] = "readback" /\ HandlerStep(r))
            => /\ pc'[r] = "done"
               /\ response'[r].status = 201
               /\ \E u \in users :
                    /\ u.email = BodyEmail(r)
                    /\ response'[r].user =
                          <<[id |-> u.id, name |-> u.name, email |-> u.email]>>]_vars

\* what a response says, leaving out generated identifiers, timestamps and
\* the wording of a message
Says(resp) ==
    [status |-> resp.status,
     kind |-> resp.kind,
     user |-> [i \in 1..Len(resp.user) |->
                 [name |-> resp.user[i].name, email |-> resp.user[i].email]],
     tasks |-> [i \in 1..Len(resp.tasks) |->
                 [title |-> resp.tasks[i].title,
                  completed |-> resp.tasks[i].completed]]]

\* C17: the two backends are interchangeable: a request answered on the
\* networked backend and the same request answered on the embedded backend,
\* from the same contents, get the same status and the same payload.
C17_BackendsAnswerAlike ==
    (server = "sqlite" /\ pc[1] = "done" /\ pc[2] = "done")
    => Says(response[2]) = Says(response[1])

\* C18: every query call that succeeds, for a SELECT, INSERT, UPDATE or DELETE
\* and on both backends, gives rows that are a list and a rowCount that is a
\* number: the rows returned by a read, the rows affected by a write.
C18_ResultShapeIsNormalized ==
    (callResult.done /\ callResult.error = "")
    => /\ callResult.shape.rowsIsList
       /\ callResult.shape.rowCountIsNumber
       /\ callResult.shape.rowCount = callResult.matched
       /\ callText.kind = "select" => Len(callResult.shape.rows) = callResult.matched

\* C19: placeholder translation is transparent: the call does not fail on the
\* parameter list, and every occurrence of $i in the template is bound to the
\* i-th parameter, wherever and however often $i occurs.
C19_PlaceholdersBindByNumber ==
    callResult.done
    => /\ callResult.error \notin {"ER_WRONG_ARGUMENTS", "SQLITE_RANGE"}
       /\ \A k \in 1..Len(callText.holes) : callResult.bound[k] = callParams[callText.holes[k]]

\* C20: bootstrap is idempotent: a bootstrap that runs on a store an earlier
\* bootstrap initialized, or that holds users and tasks, leaves the user and
\* task rows as they are.
C20_BootstrapIsIdempotent ==
    [][(dbReady = "pending" /\ dbReady' # "pending"
          /\ (starts > 1 \/ users # {}))
       => (users' = users /\ tasks' = tasks)]_vars

\* C21: the connection handle is created at most once per process: under any
\* interleaving of the callers the create operation has run at most once, and
\* any two callers that hold a handle hold the same one.
C21_HandleCreatedOnce ==
    /\ creates <= 1
    /\ \A c, d \in Callers :
         (caller[c].handle # 0 /\ caller[d].handle # 0)
            => caller[c].handle = caller[d].handle

\* two callers wait for the same connection promise, created once, and a third
\* has its handle
C21_Witness ==
    /\ server = "mongoServerless"
    /\ creates = 1
    /\ \E c, d, e \in Callers :
         /\ c # d
         /\ caller[c].at = "awaiting" /\ caller[d].at = "awaiting"
         /\ caller[e].at = "returned" /\ caller[e].handle # 0

\* C22: every answer that is not a success (200, 201, 204) has a status of
\* the taxonomy (400, 401, 404, 409, 500) and a JSON body { message }: no
\* error gets past the handlers, a failed startup bootstrap included.
C22_ErrorsAreJsonMessages ==
    \A r \in Requests :
        pc[r] = "done" =>
            \/ response[r].status \in {200, 201, 204}
            \/ /\ response[r].status \in {400, 401, 404, 409, 500}
               /\ response[r].kind = "message"
               /\ response[r].message # ""

\* the errors of the store's drivers that the handlers meet
StoreErrors ==
    {NoSuchFunctionNow, MySqlParseError, MySqlDuplicateEntry, SqliteConstraint}

\* C23: no response carries the text of a store error: when a store operation
\* fails inside a handler the message of the answer is a fixed text.
C23_NoStoreErrorTextInResponse ==
    \A r \in Requests :
        pc[r] = "done" =>
            \A e \in StoreErrors : response[r].message # e.message

\* C24: no endpoint updates or deletes a User row: every step keeps every row
\* of users as it is; a step that adds a row adds exactly one and is a step of
\* a register request, and the register request that added it is answered 201.
C24_UsersOnlyGrowByRegister ==
    [][/\ users \subseteq users'
       /\ users' # users =>
            /\ Cardinality(users') = Cardinality(users) + 1
            /\ \E r \in Requests : request[r].op = "register" /\ HandlerStep(r)
       /\ \A r \in Requests :
            (request[r].op = "register" /\ pc[r] = "readback" /\ Answered(r))
               => response'[r].status = 201]_vars

\* a register added a third row, and an owner's delete was answered 204 with
\* the three rows in place
C24_Witness ==
    /\ SeedUsers \subseteq users
    /\ Cardinality(users) = 3
    /\ \E r, q \in Requests :
         /\ IsDone(r, "register") /\ response[r].status = 201
         /\ IsDone(q, "delete") /\ response[q].status = 204

\* C25: in every reachable state every task's owning user id is the id of an
\* existing user
C25_TasksReferenceUsers ==
    \A t \in tasks : \E u \in users : u.id = t.user_id

\* C26: on the document-store servers, with the store connected, an update
\* or a delete of a task that belongs to another user than the path user, or
\* of a task id that no task has, is answered 404 and leaves the tasks as they
\* were.
C26_DocumentStoreChecksOwner ==
    [][\A r \in Requests :
         (/\ request[r].op \in {"update", "delete"}
          /\ cached.conn # 0
          /\ ForeignTask(r) \/ (MissingTask(r) /\ IsObjectId(request[r].taskId))
          /\ Answered(r))
         => /\ tasks' = tasks
            /\ response'[r].status = 404]_vars

\* register r was answered 201, and login q carries r's password and an email
\* that is r's email once trimmed and lower-cased
LoginOfRegistered(q, r) ==
    /\ request[q].op = "login"
    /\ IsDone(r, "register") /\ response[r].status = 201
    /\ BodyEmail(q) = BodyEmail(r)
    /\ request[q].body.password = request[r].body.password

\* C27: once a register is answered 201, a login with the same password and
\* an email that is the same after trimming and lower-casing is answered 200
\* with the user of the register's answer, whose email is the normalized one;
\* no step of a login changes a row.
C27_RegisterThenLogin ==
    [][\A q \in Requests :
         /\ (request[q].op = "login" /\ HandlerStep(q))
               => (users' = users /\ tasks' = tasks)
         /\ \A r \in Requests :
              (LoginOfRegistered(q, r) /\ Answered(q))
                 => /\ response'[q] = JsonUser(200, response[r].user[1])
                    /\ response[r].user[1].email = BodyEmail(r)]_vars

\* C28: every create answered 201 is answered with the task that request
\* created: the answer carries the request's own title, trimmed, and no two
\* answers carry the same task id.
C28_CreateReturnsOwnTask ==
    \A r \in Requests :
        (IsDone(r, "create") /\ response[r].status = 201)
        => /\ response[r].tasks[1].title = Stripped(request[r].body.title.s)
           /\ \A q \in Requests \ {r} :
                (IsDone(q, "create") /\ response[q].status = 201)
                => response[q].tasks[1].id # response[r].tasks[1].id

\* the body of r carries no title, or a title of blanks only
BlankTitle(r) ==
    \/ request[r].body.title.t = "undefined"
    \/ request[r].body.title.t = "string" /\ Stripped(request[r].body.title.s) = <<>>

C30_ClientErrorsChangeNothing ==
    [][\A r \in Requests :
         (Answered(r) /\ response'[r].status \in {400, 401, 404, 409})
         => (users' = users /\ tasks' = tasks)]_vars

\* C31: no endpoint handler runs before the startup bootstrap has completed.
\* A request that arrives while bootstrap is pending stays in the first
\* middleware; it leaves the middleware for its handler only when bootstrap
\* has resolved, and when bootstrap has rejected it leaves with the error and
\* no handler runs.  Every step of a handler, and so every store query of a
\* handler, is taken with bootstrap resolved; until then only bootstrap
\* changes the rows.
C31_HandlersWaitForBootstrap ==
    [][/\ \A r \in Requests :
            /\ (pc[r] = "gate" /\ dbReady = "pending") => pc'[r] = "gate"
            /\ (pc[r] = "gate" /\ pc'[r] # "gate") =>
                 IF dbReady = "resolved"
                 THEN pc'[r] = "received" /\ response'[r] = NoResponse
                 ELSE pc'[r] = "done" /\ response'[r] = DefaultErrorPage
            /\ (pc[r] \notin {"idle", "gate"} /\ HandlerStep(r))
                 => dbReady = "resolved"
       /\ (dbReady = "rejected") => (users' = users /\ tasks' = tasks)
       /\ (dbReady = "pending" /\ (users' # users \/ tasks' # tasks))
            => dbReady' # "pending"]_vars

\* on the embedded backend bootstrap seeded an empty store with its one user,
\* and a login that passed the first middleware afterwards was answered 200
\* with that user
C31_Witness ==
    /\ server = "sqlite"
    /\ dbReady = "resolved"
    /\ seedFile = "user and task"
    /\ Cardinality(users) = 1
    /\ IsDone(1, "login") /\ response[1].status = 200
    /\ response[1].user[1].email = SeedEmail

\* C32: in the browser client every task held in state.tasks belongs to the
\* user of state.user: with state.user null state.tasks is empty, and with a
\* user logged in state.tasks holds no task of another user, whatever the
\* order of logout, login and the answers of the requests in flight.
C32_TasksBelongToUser ==
    \A i \in 1..Len(state.tasks) :
        /\ state.user # <<>>
        /\ state.tasks[i].userId = state.user[1].id

====
